---- MODULE Spec2Model ----
(***************************************************************************)
(* A model of the document reconstruction code of pdf-to-md:                *)
(*   src/pdf_to_json_final.py   token-stream path (titles, header, body     *)
(*                              paragraphs, footnotes, the page loop)       *)
(*   src/txt_to_json_parser.py  plain-text path (chapter lines, the          *)
(*                              cross-boundary paragraph merger)            *)
(*                                                                         *)
(* Text is a sequence of one-character strings.  Coordinates and font       *)
(* sizes are integers counting TENTHS of a unit (top 99.4 is 994), so that   *)
(* the comparisons and the rounding of the code are exact.                  *)
(***************************************************************************)
EXTENDS Integers, Sequences, FiniteSets, TLC

VARIABLES
    \* clean_hyphenated_text driven on its own
    text,            \* the string the function is applied to / its last result
    passes,          \* how many times it has been applied
    first_pass,      \* the result of the first application (history)
    \* parse_chapter_content
    lines,           \* content.split('\n')
    line_i,          \* the loop index i, counted from 1 (the code's i + 1)
    unit_id,         \* the next content unit id
    parse_pc,        \* "idle", "loop", "merging" or "done"
    \* merge_split_paragraphs
    content_units,   \* the argument list; its dicts are shared with merged_units
    merged_units,    \* the list being built: indices of the dicts of content_units
    merge_i,         \* the loop index i, counted from 1
    merge_pc,        \* "idle", "start", "loop" or "done"
    merge_result,    \* the returned list
    input_units,     \* the argument as it was when the call began (history)
    \* extract_footnotes_improved
    fn_words,        \* the argument words
    footnote_lines,  \* the lines of the footnote band
    fn_k,            \* the position of the loop over footnote_lines, from 1
    footnotes,       \* the footnotes closed so far
    current_footnote,\* <<>> for None, else <<the open footnote>>
    fn_result,       \* the returned list
    fn_pc,           \* "idle", "loop" or "done"
    fn_branch,       \* per line, the branch the loop took (history)
    \* extract_titles
    tt_words,        \* the argument words
    titles,          \* the returned list
    tt_pc,           \* "idle", "start" or "done"
    \* pdf_to_json_final
    pdf_pages,       \* pdf.pages: per page the words extract_words returns
    start_page,      \* the argument, 0 for None
    end_page,        \* the argument, 0 for None
    page_num,        \* actual_page_num, the 1-based number of the page at hand
    content_id,      \* the next content unit id
    result,          \* the page records so far
    output_file,     \* what was written to output_path
    written,         \* whether output_path was written
    pdf_pc,          \* "idle", "loop", "done" or "raised"
    raised_at,       \* the page whose processing raised, 0 for none (history)
    \* parse_txt_to_json and parse_all_chapters
    txt_file,        \* <<the file's content>>, <<>> while there is no file
    chapter_matches, \* the matches of chapter_pattern, in order
    txt_k,           \* the position of the loop over chapter_matches, from 1
    chapters,        \* the chapter records built so far
    txt_files,       \* the names of the files parse_all_chapters has written
    txt_pc,          \* where parse_all_chapters is
    \* translate_json_content_with_resume (azure_translator_resume.py)
    az_input,        \* the content of input_file: the chapter list
    az_output,       \* the content of output_file, <<>> while it does not exist
    az_same,         \* output_file is None, so output_path is input_file
    az_progress,     \* progress_file's completed_indices, <<>> while no such file
    az_data,         \* data, the chapter list in memory
    az_todo,         \* texts_to_translate
    az_completed,    \* completed_indices
    az_i,            \* the loop index i over the batches
    az_pc,           \* where the current run is
    az_run,          \* the number of the current run
    az_ends,         \* how the runs so far ended (history)
    az_log,          \* the units of the completed batches (history)
    \* analyze_font_sizes
    fs_words,        \* the size of each word of the page, 0 for a missing one
    font_sizes,      \* the sizes kept, sorted once the loop runs
    fs_k,            \* the position of the loop over font_sizes, from 1
    size_groups,     \* the dict, as its [key, sizes] items in insertion order
    font_info,       \* <<>> for {}, else <<the returned dict>>
    fs_pc,           \* where analyze_font_sizes is
    fs_bucket,       \* per position of font_sizes, the key of its group (history)
    \* group_words_to_lines
    gw_words,        \* the argument words
    gw_lines,        \* the returned list of lines
    gw_pc,           \* where group_words_to_lines is
    \* extract_body_paragraphs_with_footnote_refs
    bp_words,        \* the argument words
    body_lines,      \* the lines of the body words
    bp_k,            \* the position of the loop over body_lines, from 1
    body_paragraphs, \* the paragraphs closed so far
    bp_current_para, \* current_para, the buffer of the open paragraph
    bp_first_para,   \* first_para, no indented line has been met yet
    bp_result,       \* the returned list
    bp_pc,           \* where the function is
    bp_fired         \* per line, the value of is_new_para (history)

hyVars == <<text, passes, first_pass>>

parseVars == <<lines, line_i, unit_id, parse_pc>>

mergeVars ==
    <<content_units, merged_units, merge_i, merge_pc, merge_result,
      input_units>>

fnVars ==
    <<fn_words, footnote_lines, fn_k, footnotes, current_footnote, fn_result,
      fn_pc, fn_branch>>

ttVars == <<tt_words, titles, tt_pc>>

pdfVars ==
    <<pdf_pages, start_page, end_page, page_num, content_id, result,
      output_file, written, pdf_pc, raised_at>>

txtVars == <<txt_file, chapter_matches, txt_k, chapters, txt_files, txt_pc>>

azVars ==
    <<az_input, az_output, az_same, az_progress, az_data, az_todo,
      az_completed, az_i, az_pc, az_run, az_ends, az_log>>

fsVars ==
    <<fs_words, font_sizes, fs_k, size_groups, font_info, fs_pc, fs_bucket>>

gwVars == <<gw_words, gw_lines, gw_pc>>

bpVars ==
    <<bp_words, body_lines, bp_k, body_paragraphs, bp_current_para,
      bp_first_para, bp_result, bp_pc, bp_fired>>

vars ==
    <<hyVars, parseVars, mergeVars, fnVars, ttVars, pdfVars, txtVars, azVars,
      fsVars, gwVars, bpVars>>

\* what the actions of one function leave alone
notHy ==
    <<parseVars, mergeVars, fnVars, ttVars, pdfVars, txtVars, azVars, fsVars,
      gwVars, bpVars>>

notMerge ==
    <<hyVars, parseVars, fnVars, ttVars, pdfVars, txtVars, azVars, fsVars,
      gwVars, bpVars>>

notParse ==
    <<hyVars, fnVars, ttVars, pdfVars, txtVars, azVars, fsVars, gwVars,
      bpVars>>

notFn ==
    <<hyVars, parseVars, mergeVars, ttVars, pdfVars, txtVars, azVars, fsVars,
      gwVars, bpVars>>

notTt ==
    <<hyVars, parseVars, mergeVars, fnVars, pdfVars, txtVars, azVars, fsVars,
      gwVars, bpVars>>

notAz ==
    <<hyVars, parseVars, mergeVars, fnVars, ttVars, pdfVars, txtVars, fsVars,
      gwVars, bpVars>>

notFs ==
    <<hyVars, parseVars, mergeVars, fnVars, ttVars, pdfVars, txtVars, azVars,
      gwVars, bpVars>>

notGw ==
    <<hyVars, parseVars, mergeVars, fnVars, ttVars, pdfVars, txtVars, azVars,
      fsVars, bpVars>>

notBp ==
    <<hyVars, parseVars, mergeVars, fnVars, ttVars, pdfVars, txtVars,
      azVars, fsVars, gwVars>>

notPdf ==
    <<hyVars, parseVars, mergeVars, fnVars, ttVars, txtVars, azVars, fsVars,
      gwVars, bpVars>>

----------------------------------------------------------------------------
(* Characters and strings                                                  *)

UpperChars == {"A", "B", "F", "T"}
LowerChars == {"a", "b", "e", "f", "h", "q", "x"}
DigitChars == {"0", "1", "2", "3", "4", "5", "6", "7", "8", "9"}

\* Python's \w : letters, digits and the underscore
\* (CHAPTER, kept as one element, is made of letters)
IsWordChar(c) ==
    c \in UpperChars \cup LowerChars \cup DigitChars \cup {"_", "CHAPTER"}

\* Python's \s ; the model's whitespace is the blank and the newline
IsSpaceChar(c) == c \in {" ", "\n"}

IsDigitChar(c) == c \in DigitChars

\* str.isupper() / str.islower() of a one-character string
IsUpperChar(c) == c \in UpperChars

IsLowerChar(c) == c \in LowerChars

\* the first index j >= i of s that is past the end or not a word character
RECURSIVE WordRunEnd(_, _)
WordRunEnd(s, i) ==
    IF i > Len(s) \/ ~IsWordChar(s[i]) THEN i ELSE WordRunEnd(s, i + 1)

\* the first index j >= i of s that is past the end or not whitespace
RECURSIVE SpaceRunEnd(_, _)
SpaceRunEnd(s, i) ==
    IF i > Len(s) \/ ~IsSpaceChar(s[i]) THEN i ELSE SpaceRunEnd(s, i + 1)

\* the first index j >= i of s that is past the end or not a digit
RECURSIVE DigitRunEnd(_, _)
DigitRunEnd(s, i) ==
    IF i > Len(s) \/ ~IsDigitChar(s[i]) THEN i ELSE DigitRunEnd(s, i + 1)

\* all sequences over S of length at most n
RECURSIVE SeqsUpTo(_, _)
SeqsUpTo(S, n) ==
    IF n = 0 THEN {<<>>}
    ELSE LET shorter == SeqsUpTo(S, n - 1)
         IN  shorter \cup {Append(s, c) : s \in shorter, c \in S}

\* sep.join(parts) for a sequence of strings
RECURSIVE Join(_, _)
Join(parts, sep) ==
    IF parts = <<>> THEN <<>>
    ELSE IF Len(parts) = 1 THEN parts[1]
    ELSE parts[1] \o sep \o Join(Tail(parts), sep)

----------------------------------------------------------------------------
(* clean_hyphenated_text: re.sub(r'(\w+)-\s+(\w+)', r'\1\2', text)          *)

\* The end (exclusive) of the match of (\w+)-\s+(\w+) that starts at i, or 0.
\* Every quantifier is greedy and no shorter choice can match, because the
\* character after a maximal run is of another class.
HyphenMatchEnd(s, i) ==
    LET j == WordRunEnd(s, i)
        k == SpaceRunEnd(s, j + 1)
        m == WordRunEnd(s, k)
    IN  IF j > i /\ j <= Len(s) /\ s[j] = "-" /\ k > j + 1 /\ m > k
        THEN m ELSE 0

\* re.sub scans left to right; after a match it resumes at the match's end,
\* so the characters of a match are never part of a later match.
RECURSIVE CleanFrom(_, _)
CleanFrom(s, i) ==
    IF i > Len(s) THEN <<>>
    ELSE LET m == HyphenMatchEnd(s, i)
         IN  IF m = 0
             THEN <<s[i]>> \o CleanFrom(s, i + 1)
             ELSE LET j == WordRunEnd(s, i)
                      k == SpaceRunEnd(s, j + 1)
                  IN  SubSeq(s, i, j - 1) \o SubSeq(s, k, m - 1)
                          \o CleanFrom(s, m)

clean_hyphenated_text(s) == CleanFrom(s, 1)

----------------------------------------------------------------------------
(* Content units of the plain-text path.  A key the code leaves out of a    *)
(* dict is the empty sequence here: 'note' of a unit nothing was merged    *)
(* into, 'original_id' of a paragraph.                                     *)

Paragraph(id, t) ==
    [id |-> id, type |-> "paragraph", original_id |-> <<>>, text |-> t,
     note |-> <<>>]

\* Footnote taking the note's text for its number
Footnote_TextAsId(id, oid, t) ==
    [id |-> id, type |-> "footnote", original_id |-> t, text |-> t,
     note |-> <<>>]

Footnote(id, oid, t) ==
    [id |-> id, type |-> "footnote", original_id |-> oid, text |-> t,
     note |-> <<>>]

\* f"combined by id{current_unit['id']}"
NoteFor(id) == <<"combined by id", id>>

SetMax(S) == CHOOSE x \in S : \A y \in S : y <= x

SetMin(S) == CHOOSE x \in S : \A y \in S : x <= y

Abs(x) == IF x < 0 THEN -x ELSE x

\* sorted(seq, key=...) and list.sort(key=...), which are stable: seq in
\* the order of keys, keys[i] being the key of seq[i]
SortByKeys(seq, keys) ==
    LET rank(i) ==
            Cardinality({j \in DOMAIN seq :
                            \/ keys[j] < keys[i]
                            \/ keys[j] = keys[i] /\ j < i}) + 1
    IN  [r \in DOMAIN seq |-> seq[CHOOSE i \in DOMAIN seq : rank(i) = r]]

----------------------------------------------------------------------------
(* merge_split_paragraphs                                                  *)

\* the test of lines 191-195: the unit at i continues a paragraph that a
\* footnote interrupted
IsSplitContinuation(units, i) ==
    /\ i > 1
    /\ units[i - 1].type = "footnote"
    /\ units[i].type = "paragraph"
    /\ units[i].text # <<>>
    /\ IsLowerChar(units[i].text[1])

\* PrevParagraphIdx whose search never finds a paragraph
PrevParagraphIdx_NotFound(units, merged) == 0

\* PrevParagraphIdx taking the last unit of merged whatever its type
PrevParagraphIdx_AnyType(units, merged) == Len(merged)

\* PrevParagraphIdx searching from the front of merged
PrevParagraphIdx_First(units, merged) ==
    LET found == {j \in 1..Len(merged) : units[merged[j]].type = "paragraph"}
    IN  IF found = {} THEN 0 ELSE SetMin(found)

\* lines 199-203: the position in merged of the last paragraph, 0 for None
PrevParagraphIdx(units, merged) ==
    LET found == {j \in 1..Len(merged) : units[merged[j]].type = "paragraph"}
    IN  IF found = {} THEN 0 ELSE SetMax(found)

\* AbsorbInto forgetting the merge note
AbsorbInto_NoNote(target, current) ==
    [target EXCEPT !.text = @ \o <<" ">> \o current.text]

\* AbsorbInto joining without the blank
AbsorbInto_NoSpace(target, current) ==
    [target EXCEPT !.text = @ \o current.text,
                   !.note = Append(@, NoteFor(current.id))]

\* lines 207-211: the target dict after the fragment is merged into it
AbsorbInto(target, current) ==
    [target EXCEPT !.text = @ \o <<" ">> \o current.text,
                   !.note = Append(@, NoteFor(current.id))]

\* lines 181-182: fewer than two units are returned as they are
MergeShort ==
    /\ merge_pc = "start"
    /\ Len(content_units) < 2
    /\ merge_result' = content_units
    /\ merge_pc' = "done"
    /\ UNCHANGED <<content_units, merged_units, merge_i, input_units>>
    /\ UNCHANGED notMerge

\* lines 184-185
MergeEnter ==
    /\ merge_pc = "start"
    /\ Len(content_units) >= 2
    /\ merged_units' = <<>>
    /\ merge_i' = 1
    /\ merge_pc' = "loop"
    /\ UNCHANGED <<content_units, merge_result, input_units>>
    /\ UNCHANGED notMerge

\* lines 205-212: the fragment is merged into the previous paragraph.  The
\* dicts of merged_units are those of content_units, so the argument changes.
MergeAbsorb ==
    /\ merge_pc = "loop"
    /\ merge_i <= Len(content_units)
    /\ IsSplitContinuation(content_units, merge_i)
    /\ LET j == PrevParagraphIdx(content_units, merged_units)
       IN  /\ j # 0
           /\ content_units' =
                 [content_units EXCEPT ![merged_units[j]] =
                     AbsorbInto(@, content_units[merge_i])]
    /\ merge_i' = merge_i + 1
    /\ UNCHANGED <<merged_units, merge_pc, merge_result, input_units>>
    /\ UNCHANGED notMerge

\* lines 213-215: no previous paragraph, the fragment is kept
MergeKeepFragment ==
    /\ merge_pc = "loop"
    /\ merge_i <= Len(content_units)
    /\ IsSplitContinuation(content_units, merge_i)
    /\ PrevParagraphIdx(content_units, merged_units) = 0
    /\ merged_units' = Append(merged_units, merge_i)
    /\ merge_i' = merge_i + 1
    /\ UNCHANGED <<content_units, merge_pc, merge_result, input_units>>
    /\ UNCHANGED notMerge

\* lines 216-218
MergeAppend ==
    /\ merge_pc = "loop"
    /\ merge_i <= Len(content_units)
    /\ ~IsSplitContinuation(content_units, merge_i)
    /\ merged_units' = Append(merged_units, merge_i)
    /\ merge_i' = merge_i + 1
    /\ UNCHANGED <<content_units, merge_pc, merge_result, input_units>>
    /\ UNCHANGED notMerge

\* line 222
MergeReturn ==
    /\ merge_pc = "loop"
    /\ merge_i > Len(content_units)
    /\ merge_result' =
          [k \in 1..Len(merged_units) |-> content_units[merged_units[k]]]
    /\ merge_pc' = "done"
    /\ UNCHANGED <<content_units, merged_units, merge_i, input_units>>
    /\ UNCHANGED notMerge

MergeNext ==
    \/ MergeShort
    \/ MergeEnter
    \/ MergeAbsorb
    \/ MergeKeepFragment
    \/ MergeAppend
    \/ MergeReturn

MergeIdle ==
    /\ content_units = <<>>
    /\ merged_units = <<>>
    /\ merge_i = 0
    /\ merge_pc = "idle"
    /\ merge_result = <<>>
    /\ input_units = <<>>

ParseIdle ==
    /\ lines = <<>>
    /\ line_i = 0
    /\ unit_id = 0
    /\ parse_pc = "idle"

----------------------------------------------------------------------------
(* parse_chapter_content                                                   *)

\* str.strip(): without the leading and the trailing whitespace
Strip(s) ==
    LET inner == {k \in 1..Len(s) : ~IsSpaceChar(s[k])}
    IN  IF inner = {} THEN <<>> ELSE SubSeq(s, SetMin(inner), SetMax(inner))

\* line 124: a single uppercase letter on the first line
IsDropCap(i, line) == i = 1 /\ Len(line) = 1 /\ IsUpperChar(line[1])

\* lines 126-128: there is a next line and it is not blank
HasNextText(ls, i) == i + 1 <= Len(ls) /\ Strip(ls[i + 1]) # <<>>

\* StartsLikeFootnote asking for the digits only
StartsLikeFootnote_DigitsOnly(line) == DigitRunEnd(line, 1) > 1

\* line 141: re.match(r'^\d+\s+', line)
StartsLikeFootnote(line) ==
    LET d == DigitRunEnd(line, 1)
    IN  d > 1 /\ SpaceRunEnd(line, d) > d

\* line 143: re.match(r'^(\d+)\s+(.+)$', line) as [ok, num, rest]; when the
\* whitespace run ends the line, \s+ gives its last character back to (.+)
FootnoteMatch(line) ==
    LET d == DigitRunEnd(line, 1)
        e == SpaceRunEnd(line, d)
    IN  IF d > 1 /\ e > d /\ e <= Len(line)
        THEN [ok |-> TRUE, num |-> SubSeq(line, 1, d - 1),
              rest |-> SubSeq(line, e, Len(line))]
        ELSE IF d > 1 /\ e > d + 1
        THEN [ok |-> TRUE, num |-> SubSeq(line, 1, d - 1),
              rest |-> SubSeq(line, e - 1, Len(line))]
        ELSE [ok |-> FALSE, num |-> <<>>, rest |-> <<>>]

CurLine == Strip(lines[line_i])

\* lines 119-121
ParseSkipBlank ==
    /\ parse_pc = "loop"
    /\ line_i <= Len(lines)
    /\ CurLine = <<>>
    /\ line_i' = line_i + 1
    /\ UNCHANGED <<lines, unit_id, parse_pc, mergeVars>>
    /\ UNCHANGED notParse

\* lines 124-138: the drop cap is joined to the line right after it
ParseDropCap ==
    /\ parse_pc = "loop"
    /\ line_i <= Len(lines)
    /\ CurLine # <<>>
    /\ IsDropCap(line_i, CurLine)
    /\ HasNextText(lines, line_i)
    /\ content_units' =
          Append(content_units,
                 Paragraph(unit_id, CurLine \o Strip(lines[line_i + 1])))
    /\ unit_id' = unit_id + 1
    /\ line_i' = line_i + 2
    /\ UNCHANGED <<lines, parse_pc>>
    /\ UNCHANGED <<merged_units, merge_i, merge_pc, merge_result, input_units>>
    /\ UNCHANGED notParse

\* lines 141-154 and 164
ParseFootnote ==
    /\ parse_pc = "loop"
    /\ line_i <= Len(lines)
    /\ CurLine # <<>>
    /\ ~(IsDropCap(line_i, CurLine) /\ HasNextText(lines, line_i))
    /\ StartsLikeFootnote(CurLine)
    /\ LET m == FootnoteMatch(CurLine)
       IN  IF m.ok
           THEN /\ content_units' =
                      Append(content_units,
                             Footnote(unit_id, m.num, Strip(m.rest)))
                /\ unit_id' = unit_id + 1
           ELSE UNCHANGED <<content_units, unit_id>>
    /\ line_i' = line_i + 1
    /\ UNCHANGED <<lines, parse_pc>>
    /\ UNCHANGED <<merged_units, merge_i, merge_pc, merge_result, input_units>>
    /\ UNCHANGED notParse

\* lines 155-164
ParseParagraph ==
    /\ parse_pc = "loop"
    /\ line_i <= Len(lines)
    /\ CurLine # <<>>
    /\ ~(IsDropCap(line_i, CurLine) /\ HasNextText(lines, line_i))
    /\ ~StartsLikeFootnote(CurLine)
    /\ content_units' = Append(content_units, Paragraph(unit_id, CurLine))
    /\ unit_id' = unit_id + 1
    /\ line_i' = line_i + 1
    /\ UNCHANGED <<lines, parse_pc>>
    /\ UNCHANGED <<merged_units, merge_i, merge_pc, merge_result, input_units>>
    /\ UNCHANGED notParse

\* line 167: merge_split_paragraphs(content_units) is called
ParseCallMerge ==
    /\ parse_pc = "loop"
    /\ line_i > Len(lines)
    /\ parse_pc' = "merging"
    /\ merge_pc' = "start"
    /\ input_units' = content_units
    /\ UNCHANGED <<lines, line_i, unit_id>>
    /\ UNCHANGED <<content_units, merged_units, merge_i, merge_result>>
    /\ UNCHANGED notParse

\* lines 167-169: the merged list is returned
ParseReturn ==
    /\ parse_pc = "merging"
    /\ merge_pc = "done"
    /\ parse_pc' = "done"
    /\ UNCHANGED <<lines, line_i, unit_id, mergeVars>>
    /\ UNCHANGED notParse

----------------------------------------------------------------------------
(* parse_txt_to_json and parse_all_chapters.  The file's content is a       *)
(* sequence of characters in which the seven letters CHAPTER are one        *)
(* element, ChapterWord: a part of the word never takes part in a match of *)
(* chapter_pattern, so nothing is lost by keeping them together.            *)

ChapterWord == "CHAPTER"

NewLine == "\n"

\* the characters in the order of their value, for int()
Digits == <<"0", "1", "2", "3", "4", "5", "6", "7", "8", "9">>

DigitValue(c) == (CHOOSE k \in 1..10 : Digits[k] = c) - 1

\* int(s) of a string of digits
RECURSIVE IntOf(_)
IntOf(s) ==
    IF s = <<>> THEN 0
    ELSE 10 * IntOf(SubSeq(s, 1, Len(s) - 1)) + DigitValue(s[Len(s)])

\* str.isdigit()
IsDigitString(s) == s # <<>> /\ \A k \in 1..Len(s) : IsDigitChar(s[k])

\* the positions of s in a..b that hold a newline
NewLinesIn(s, a, b) == {q \in a..b : q <= Len(s) /\ s[q] = NewLine}

\* line 69: chapter_pattern = r'CHAPTER\s+(\w+)\s*\n([^\n]+)\s*\n' tried at
\* position i.  \s+ and (\w+) take their whole runs; the \s* after the
\* number gives back to its last newline that is followed by a title line
\* closed by a newline; the last \s* gives back to the last newline of its
\* run.  end is the position just after the match.
ChapterMatchAt(s, i) ==
    LET e1 == SpaceRunEnd(s, i + 1)
        e2 == WordRunEnd(s, e1)
        e3 == SpaceRunEnd(s, e2)
        first_nl == {p \in NewLinesIn(s, e2, e3 - 1) :
                        /\ p + 1 <= Len(s)
                        /\ s[p + 1] # NewLine
                        /\ NewLinesIn(s, p + 2, Len(s)) # {}}
    IN  IF s[i] = ChapterWord /\ e1 > i + 1 /\ e2 > e1 /\ first_nl # {}
        THEN LET p  == SetMax(first_nl)
                 e4 == SetMin(NewLinesIn(s, p + 2, Len(s)))
                 e5 == SpaceRunEnd(s, e4)
             IN  [ok |-> TRUE, start |-> i,
                  end |-> SetMax(NewLinesIn(s, e4, e5 - 1)) + 1,
                  num |-> SubSeq(s, e1, e2 - 1),
                  title |-> SubSeq(s, p + 1, e4 - 1)]
        ELSE [ok |-> FALSE, start |-> i, end |-> i, num |-> <<>>,
              title |-> <<>>]

\* line 70: list(re.finditer(chapter_pattern, content)): the matches from
\* left to right, each search starting where the last match ended
RECURSIVE ChapterMatchesFrom(_, _)
ChapterMatchesFrom(s, from) ==
    LET found == {i \in from..Len(s) : ChapterMatchAt(s, i).ok}
    IN  IF found = {} THEN <<>>
        ELSE LET m == ChapterMatchAt(s, SetMin(found))
             IN  <<m>> \o ChapterMatchesFrom(s, m.end)

\* str.split('\n')
RECURSIVE SplitLines(_)
SplitLines(s) ==
    LET nl == NewLinesIn(s, 1, Len(s))
    IN  IF nl = {} THEN <<s>>
        ELSE <<SubSeq(s, 1, SetMin(nl) - 1)>>
             \o SplitLines(SubSeq(s, SetMin(nl) + 1, Len(s)))

\* lines 77-83: the text between the end of match k and the next match (or
\* the end of the content), stripped
ChapterContent(s, matches, k) ==
    LET end_pos == IF k + 1 <= Len(matches) THEN matches[k + 1].start
                   ELSE Len(s) + 1
    IN  Strip(SubSeq(s, matches[k].end, end_pos - 1))

\* lines 88-92
ChapterData(m, units) ==
    [chapter |-> IF IsDigitString(m.num) THEN <<IntOf(m.num)>> ELSE m.num,
     title |-> Strip(m.title),
     content_units |-> units]

\* ChaptersFound answering yes whatever the list holds
ChaptersFound_Always(chs) == TRUE

\* line 233: if chapters:
ChaptersFound(chs) == Len(chs) > 0

TxtIdle ==
    /\ txt_file = <<>>
    /\ chapter_matches = <<>>
    /\ txt_k = 0
    /\ chapters = <<>>
    /\ txt_files = <<>>
    /\ txt_pc = "idle"

\* what the actions of parse_all_chapters leave alone
notTxt == <<hyVars, fnVars, ttVars, pdfVars, azVars, fsVars, gwVars, bpVars>>

\* lines 29-50 and 262-263: no encoding can open a file that is not there,
\* the binary read raises, and parse_all_chapters prints the error
TxtReadFails ==
    /\ txt_pc = "start"
    /\ txt_file = <<>>
    /\ txt_pc' = "error"
    /\ UNCHANGED <<txt_file, chapter_matches, txt_k, chapters, txt_files>>
    /\ UNCHANGED <<parseVars, mergeVars>>
    /\ UNCHANGED notTxt

\* lines 63-70: the content is read and the chapter markers are found
TxtFindChapters ==
    /\ txt_pc = "start"
    /\ txt_file # <<>>
    /\ chapter_matches' = ChapterMatchesFrom(txt_file[1], 1)
    /\ txt_k' = 1
    /\ txt_pc' = "chapters"
    /\ UNCHANGED <<txt_file, chapters, txt_files>>
    /\ UNCHANGED <<parseVars, mergeVars>>
    /\ UNCHANGED notTxt

\* lines 72-86 and 109-114: parse_chapter_content is called on the text of
\* chapter txt_k
TxtBeginChapter ==
    /\ txt_pc = "chapters"
    /\ txt_k <= Len(chapter_matches)
    /\ lines' = SplitLines(ChapterContent(txt_file[1], chapter_matches, txt_k))
    /\ line_i' = 1
    /\ unit_id' = 1
    /\ parse_pc' = "loop"
    /\ content_units' = <<>>
    /\ merged_units' = <<>>
    /\ merge_i' = 0
    /\ merge_pc' = "idle"
    /\ merge_result' = <<>>
    /\ input_units' = <<>>
    /\ txt_pc' = "in_chapter"
    /\ UNCHANGED <<txt_file, chapter_matches, txt_k, chapters, txt_files>>
    /\ UNCHANGED notTxt

\* lines 86-94: the chapter's record is appended
TxtEndChapter ==
    /\ txt_pc = "in_chapter"
    /\ parse_pc = "done"
    /\ chapters' =
          Append(chapters, ChapterData(chapter_matches[txt_k], merge_result))
    /\ txt_k' = txt_k + 1
    /\ txt_pc' = "chapters"
    /\ UNCHANGED <<txt_file, chapter_matches, txt_files>>
    /\ UNCHANGED <<parseVars, mergeVars>>
    /\ UNCHANGED notTxt

\* lines 96 and 233-257: chapters were found; they are all written to one
\* file and the first of them to another (chapters[0] of an empty list
\* raises after the first file is written, and the error is printed)
TxtSave ==
    /\ txt_pc = "chapters"
    /\ txt_k > Len(chapter_matches)
    /\ ChaptersFound(chapters)
    /\ IF Len(chapters) > 0
       THEN /\ txt_files' =
                  <<[name |-> "all_chapters_output.json", data |-> chapters],
                    [name |-> "chapter_one_output.json",
                     data |-> <<chapters[1]>>]>>
            /\ txt_pc' = "saved"
       ELSE /\ txt_files' =
                  <<[name |-> "all_chapters_output.json", data |-> chapters]>>
            /\ txt_pc' = "error"
    /\ UNCHANGED <<txt_file, chapter_matches, txt_k, chapters>>
    /\ UNCHANGED <<parseVars, mergeVars>>
    /\ UNCHANGED notTxt

\* lines 96 and 259-260: no chapter was found, which is printed
TxtReportNone ==
    /\ txt_pc = "chapters"
    /\ txt_k > Len(chapter_matches)
    /\ ~ChaptersFound(chapters)
    /\ txt_pc' = "none_found"
    /\ UNCHANGED <<txt_file, chapter_matches, txt_k, chapters, txt_files>>
    /\ UNCHANGED <<parseVars, mergeVars>>
    /\ UNCHANGED notTxt

----------------------------------------------------------------------------
(* Words and lines of the token-stream path.  A word is                     *)
(* [text, x0, top, size]; top, x0 and size are in tenths of a unit, and a   *)
(* size of 0 stands for a missing one.                                      *)

Word(t, x, y, sz) == [text |-> t, x0 |-> x, top |-> y, size |-> sz]

\* key=lambda w: w['top']
SortedByTop(words) == SortByKeys(words, [k \in DOMAIN words |-> words[k].top])

\* key=lambda w: w['x0']
SortedByX0(words) == SortByKeys(words, [k \in DOMAIN words |-> words[k].x0])

\* " ".join(word['text'] for word in line)
LineText(line) == Join([k \in DOMAIN line |-> line[k].text], <<" ">>)

\* y_tolerance=2 (lines 74, 165 and 229), in tenths
DefaultYTolerance == 20

\* lines 86-96 of group_words_to_lines, from the k-th sorted word on
RECURSIVE GroupFrom(_, _, _, _, _)
GroupFrom(ws, k, current_line, acc, y_tolerance) ==
    IF k > Len(ws)
    THEN IF current_line # <<>> THEN Append(acc, current_line) ELSE acc
    ELSE IF k = 1 \/ Abs(ws[k].top - ws[k - 1].top) < y_tolerance
         THEN GroupFrom(ws, k + 1, Append(current_line, ws[k]), acc,
                        y_tolerance)
         ELSE GroupFrom(ws, k + 1, <<ws[k]>>,
                        IF current_line # <<>> THEN Append(acc, current_line)
                                               ELSE acc,
                        y_tolerance)

\* group_words_to_lines without the sort of line 82
group_words_unsorted(words, y_tolerance) ==
    IF words = <<>> THEN <<>>
    ELSE GroupFrom(words, 1, <<>>, <<>>, y_tolerance)

\* lines 78-98
group_words_to_lines(words, y_tolerance) ==
    IF words = <<>> THEN <<>>
    ELSE GroupFrom(SortedByTop(words), 1, <<>>, <<>>, y_tolerance)

----------------------------------------------------------------------------
(* extract_footnotes_improved                                              *)

\* line 222: top > 450, in tenths
FootnoteBandTop == 4500

\* line 263: 30 units, in tenths
FootnoteReach == 300

\* lines 220-229: the words below the band's top, sorted, grouped into lines
FootnoteLinesOf(words) ==
    group_words_to_lines(
        SortedByTop(SelectSeq(words, LAMBDA w : w.top > FootnoteBandTop)),
        DefaultYTolerance)

\* lines 243 and 239: the cleaned text of a line
FootnoteLineText(line) == clean_hyphenated_text(LineText(line))

\* line 246: re.match(r'^\d+', line_text)
StartsWithNumber(t) == DigitRunEnd(t, 1) > 1

\* lines 252-260: the footnote a numbered line opens
OpenFootnote(t, line_y) ==
    LET d       == DigitRunEnd(t, 1)
        content == Strip(SubSeq(t, d, Len(t)))
    IN  [original_id |-> SubSeq(t, 1, d - 1),
         content     |-> IF content # <<>> THEN <<content>> ELSE <<>>,
         start_y     |-> line_y]

\* WithinReach also taking a line exactly 30 units away
WithinReach_Inclusive(line_y, start_y) == Abs(line_y - start_y) <= FootnoteReach

\* line 263: abs(line_y - current_footnote["start_y"]) < 30
WithinReach(line_y, start_y) == Abs(line_y - start_y) < FootnoteReach

\* the branch lines 246-266 take for a line
FootnoteBranch(current, line) ==
    LET t == FootnoteLineText(line)
    IN  IF StartsWithNumber(t) THEN "open"
        ELSE IF current = <<>> THEN "none_open"
        ELSE IF WithinReach(line[1].top, current[1].start_y) THEN "continue"
        ELSE "too_far"

\* FootnoteStep forgetting the open footnote when a numbered line arrives
FootnoteStep_DropOpen(st, line) ==
    LET t      == FootnoteLineText(line)
        branch == FootnoteBranch(st.current, line)
    IN  CASE branch = "open" ->
                [footnotes |-> st.footnotes,
                 current   |-> <<OpenFootnote(t, line[1].top)>>]
          [] branch = "continue" ->
                [footnotes |-> st.footnotes,
                 current   |-> <<[st.current[1] EXCEPT
                                     !.content = Append(@, t)]>>]
          [] OTHER -> st

\* lines 235-266: one pass of the loop, on [footnotes, current]
FootnoteStep(st, line) ==
    LET t      == FootnoteLineText(line)
        branch == FootnoteBranch(st.current, line)
    IN  CASE branch = "open" ->
                [footnotes |-> st.footnotes \o st.current,
                 current   |-> <<OpenFootnote(t, line[1].top)>>]
          [] branch = "continue" ->
                [footnotes |-> st.footnotes,
                 current   |-> <<[st.current[1] EXCEPT
                                     !.content = Append(@, t)]>>]
          [] OTHER -> st

FoldedIds == {<<"2", "3", "3">>, <<"2", "4", "1">>}

FoldTargetId == <<"9">>

\* lines 273-288: the final list; a footnote 233 or 241 that follows a unit
\* with original_id 9 is appended to that unit
RECURSIVE ConvertFootnotes(_, _)
ConvertFootnotes(fs, res) ==
    IF fs = <<>> THEN res
    ELSE LET footnote_text == Join(fs[1].content, <<" ">>)
         IN  IF /\ fs[1].original_id \in FoldedIds
                /\ Len(res) > 0
                /\ res[Len(res)].original_id = FoldTargetId
             THEN ConvertFootnotes(Tail(fs),
                      [res EXCEPT ![Len(res)].source_text =
                                      @ \o <<" ">> \o footnote_text])
             ELSE ConvertFootnotes(Tail(fs),
                      Append(res, [original_id |-> fs[1].original_id,
                                   source_text |-> footnote_text,
                                   start_y     |-> fs[1].start_y]))

\* lines 235-270 on all lines
RECURSIVE FootnoteLoop(_, _)
FootnoteLoop(st, ls) ==
    IF ls = <<>> THEN st.footnotes \o st.current
    ELSE FootnoteLoop(FootnoteStep(st, ls[1]), Tail(ls))

\* the whole function; start_y is kept beside the two keys of the code to
\* tell where on the page a returned footnote began
extract_footnotes_improved(words) ==
    ConvertFootnotes(
        FootnoteLoop([footnotes |-> <<>>, current |-> <<>>],
                     FootnoteLinesOf(words)),
        <<>>)

FnStepTo(branch) ==
    /\ fn_k <= Len(footnote_lines)
    /\ FootnoteBranch(current_footnote, footnote_lines[fn_k]) = branch
    /\ LET st == FootnoteStep([footnotes |-> footnotes,
                               current   |-> current_footnote],
                              footnote_lines[fn_k])
       IN  /\ footnotes' = st.footnotes
           /\ current_footnote' = st.current
    /\ fn_branch' = Append(fn_branch, branch)
    /\ fn_k' = fn_k + 1
    /\ UNCHANGED <<fn_words, footnote_lines, fn_result, fn_pc>>
    /\ UNCHANGED notFn

\* lines 246-260: a numbered line closes the open footnote and opens one
FnOpen ==
    /\ fn_pc = "loop"
    /\ FnStepTo("open")

\* lines 261-266: the line is appended to the open footnote
FnContinue ==
    /\ fn_pc = "loop"
    /\ FnStepTo("continue")

\* line 261 fails: there is no open footnote, and nothing is done
FnNoneOpen ==
    /\ fn_pc = "loop"
    /\ FnStepTo("none_open")

\* line 263 fails: the line is too far from the open footnote
FnTooFar ==
    /\ fn_pc = "loop"
    /\ FnStepTo("too_far")

\* lines 268-290
FnReturn ==
    /\ fn_pc = "loop"
    /\ fn_k > Len(footnote_lines)
    /\ footnotes' = footnotes \o current_footnote
    /\ fn_result' = ConvertFootnotes(footnotes', <<>>)
    /\ fn_pc' = "done"
    /\ UNCHANGED <<fn_words, footnote_lines, fn_k, current_footnote, fn_branch>>
    /\ UNCHANGED notFn

FnIdle ==
    /\ fn_words = <<>>
    /\ footnote_lines = <<>>
    /\ fn_k = 0
    /\ footnotes = <<>>
    /\ current_footnote = <<>>
    /\ fn_result = <<>>
    /\ fn_pc = "idle"
    /\ fn_branch = <<>>

----------------------------------------------------------------------------
(* extract_titles                                                          *)

\* line 109: size > 7, in tenths
TitleMinSize == 70

\* line 110: top < 200, in tenths
TitleBandBottom == 2000

\* Python's round() of a non-negative number of tenths: to the nearest
\* integer, a tie going to the even one
PyRound(tenths) ==
    LET q == tenths \div 10
        r == tenths % 10
    IN  IF r < 5 THEN q
        ELSE IF r > 5 THEN q + 1
        ELSE IF q % 2 = 0 THEN q ELSE q + 1

\* lines 107-111
IsTitleWord(w) == w.size # 0 /\ w.size > TitleMinSize /\ w.top < TitleBandBottom

TitleWordsOf(words) == SelectSeq(words, IsTitleWord)

\* line 120: the key a title word is grouped under
TitleKey(w) == PyRound(w.top)

\* lines 124-127: the words of one group, by x0, and their joined text
TitleGroup(title_words, y_pos) ==
    SortedByX0(SelectSeq(title_words, LAMBDA w : TitleKey(w) = y_pos))

\* lines 123-129 from the sorted keys ys on; start_y is kept beside the text to
\* tell where on the page the title's topmost word lies
RECURSIVE TitlesFrom(_, _)
TitlesFrom(title_words, ys) ==
    IF ys = {} THEN <<>>
    ELSE LET y_pos      == SetMin(ys)
             group      == TitleGroup(title_words, y_pos)
             title_text == Strip(LineText(group))
             rest       == TitlesFrom(title_words, ys \ {y_pos})
         IN  IF title_text # <<>>
             THEN <<[text    |-> title_text,
                     start_y |-> SetMin({group[k].top : k \in DOMAIN group})]>>
                      \o rest
             ELSE rest

TitleUnitsOf(words) ==
    LET title_words == TitleWordsOf(words)
    IN  TitlesFrom(title_words,
                   {TitleKey(title_words[k]) : k \in DOMAIN title_words})

extract_titles(words) ==
    LET units == TitleUnitsOf(words) IN [k \in DOMAIN units |-> units[k].text]

ExtractTitles ==
    /\ tt_pc = "start"
    /\ titles' = extract_titles(tt_words)
    /\ tt_pc' = "done"
    /\ UNCHANGED tt_words
    /\ UNCHANGED notTt

TtIdle ==
    /\ tt_words = <<>>
    /\ titles = <<>>
    /\ tt_pc = "idle"

----------------------------------------------------------------------------
(* extract_page_header                                                     *)

\* line 137: 6.0 <= size < 7.0 and top < 70, in tenths
HeaderMinSize == 60

HeaderMaxSize == 70

HeaderBandBottom == 700

\* line 137
IsHeaderWord(w) ==
    /\ w.size # 0
    /\ HeaderMinSize <= w.size /\ w.size < HeaderMaxSize
    /\ w.top < HeaderBandBottom

HeaderWordsOf(words) == SortedByX0(SelectSeq(words, IsHeaderWord))

\* lines 140-145
extract_page_header(words) ==
    IF HeaderWordsOf(words) # <<>> THEN LineText(HeaderWordsOf(words)) ELSE <<>>

----------------------------------------------------------------------------
(* extract_body_paragraphs_with_footnote_refs                              *)

\* lines 153-154: 10.0 <= size <= 11.0 and 70 < top < 400, in tenths
BodyMinSize == 100

BodyMaxSize == 110

BodyBandTop == 700

BodyBandBottom == 4000

\* line 157: size <= 6.0, in tenths
RefMaxSize == 60

\* lines 188 and 193: indent 90, in tenths
IndentThreshold == 900

\* lines 152-154
IsBodyWord(w) ==
    /\ w.size # 0
    /\ BodyMinSize <= w.size /\ w.size <= BodyMaxSize
    /\ BodyBandTop < w.top /\ w.top < BodyBandBottom

\* lines 157-159: the test for a superscript footnote reference
IsFootnoteRef(w) ==
    /\ w.size <= RefMaxSize
    /\ w.text # <<>> /\ \A k \in DOMAIN w.text : IsDigitChar(w.text[k])
    /\ Len(w.text) <= 2

\* line 160 calls append on a str, which raises AttributeError
BodyRefRaises(words) ==
    \E k \in DOMAIN words : IsBodyWord(words[k]) /\ IsFootnoteRef(words[k])

\* lines 151-162
BodyWordsOf(words) ==
    SelectSeq(words, LAMBDA w : IsBodyWord(w) /\ ~IsFootnoteRef(w))

\* line 195: re.match(r'^[A-Z]', line_text)
StartsUpper(t) == t # <<>> /\ IsUpperChar(t[1])

\* line 196: len(line_text.split())
WordCount(t) ==
    Cardinality({k \in DOMAIN t :
                    ~IsSpaceChar(t[k]) /\ (k = 1 \/ IsSpaceChar(t[k - 1]))})

\* FlushPara keeping the first line of the buffer only
FlushPara_FirstLine(current_para) ==
    [text |-> current_para[1].text, start_y |-> current_para[1].y]

\* lines 201-202: the buffer joined into one paragraph; y is kept beside the
\* text to tell where on the page the paragraph's first line lies
FlushPara(current_para) ==
    [text    |-> Join([k \in DOMAIN current_para |-> current_para[k].text],
                      <<" ">>),
     start_y |-> current_para[1].y]

\* is_new_para set on every indented line
is_new_para_Indented(first_para, indent, line_text) ==
    indent > IndentThreshold

\* lines 184-197: the value of is_new_para for a line
is_new_para(first_para, indent, line_text) ==
    IF first_para
    THEN indent > IndentThreshold
    ELSE /\ indent <= IndentThreshold
         /\ StartsUpper(line_text)
         /\ WordCount(line_text) > 2

\* lines 172-209: one pass of the loop, on [paras, current_para, first_para]
ParaStep(st, line) ==
    LET line_text   == clean_hyphenated_text(LineText(line))
        indent      == line[1].x0
        flush       == /\ is_new_para(st.first_para, indent, line_text)
                       /\ st.current_para # <<>>
        entry       == [text |-> line_text, indent |-> indent, y |-> line[1].top]
    IN  [paras        |-> IF flush
                          THEN Append(st.paras, FlushPara(st.current_para))
                          ELSE st.paras,
         current_para |-> IF flush THEN <<entry>>
                          ELSE Append(st.current_para, entry),
         first_para   |-> st.first_para /\ ~(indent > IndentThreshold)]

\* lines 172-216 on all lines
RECURSIVE ParaLoop(_, _)
ParaLoop(st, ls) ==
    IF ls = <<>>
    THEN IF st.current_para # <<>>
         THEN Append(st.paras, FlushPara(st.current_para))
         ELSE st.paras
    ELSE ParaLoop(ParaStep(st, ls[1]), Tail(ls))

BodyParagraphUnitsOf(words) ==
    ParaLoop([paras |-> <<>>, current_para |-> <<>>, first_para |-> TRUE],
             group_words_to_lines(BodyWordsOf(words), DefaultYTolerance))

extract_body_paragraphs_with_footnote_refs(words) ==
    LET units == BodyParagraphUnitsOf(words)
    IN  [k \in DOMAIN units |-> units[k].text]

----------------------------------------------------------------------------
(* pdf_to_json_final                                                       *)

\* the dict of a content unit; a missing 'original_id' is the empty sequence,
\* and src_top (history) is where on the page the unit's first line lies
PdfUnit(type, t, oid, y) ==
    [id |-> 0, type |-> type, source_text |-> t, original_id |-> oid,
     status |-> "pending", azure_translation |-> <<>>,
     ai_second_draft |-> <<>>, src_top |-> y]

\* PageUnitsOf extracting the header whether or not a title was found
PageUnitsOf_HeaderAlways(words) ==
    LET title_units == TitleUnitsOf(words)
        header_text == extract_page_header(words)
        para_units  == BodyParagraphUnitsOf(words)
        fns         == extract_footnotes_improved(words)
    IN  [k \in DOMAIN title_units |->
            PdfUnit("title", title_units[k].text, <<>>, title_units[k].start_y)]
        \o (IF header_text # <<>>
            THEN <<PdfUnit("header", header_text, <<>>,
                           SetMin({HeaderWordsOf(words)[k].top :
                                      k \in DOMAIN HeaderWordsOf(words)}))>>
            ELSE <<>>)
        \o [k \in DOMAIN para_units |->
               PdfUnit("paragraph", para_units[k].text, <<>>,
                       para_units[k].start_y)]
        \o [k \in DOMAIN fns |->
               PdfUnit("footnote", fns[k].source_text, fns[k].original_id,
                       fns[k].start_y)]

\* lines 326-379: the units of one page in the order they are appended
PageUnitsOf(words) ==
    LET title_units == TitleUnitsOf(words)
        header_text == extract_page_header(words)
        para_units  == BodyParagraphUnitsOf(words)
        fns         == extract_footnotes_improved(words)
    IN  [k \in DOMAIN title_units |->
            PdfUnit("title", title_units[k].text, <<>>, title_units[k].start_y)]
        \o (IF title_units = <<>> /\ header_text # <<>>
            THEN <<PdfUnit("header", header_text, <<>>,
                           SetMin({HeaderWordsOf(words)[k].top :
                                      k \in DOMAIN HeaderWordsOf(words)}))>>
            ELSE <<>>)
        \o [k \in DOMAIN para_units |->
               PdfUnit("paragraph", para_units[k].text, <<>>,
                       para_units[k].start_y)]
        \o [k \in DOMAIN fns |->
               PdfUnit("footnote", fns[k].source_text, fns[k].original_id,
                       fns[k].start_y)]

\* lines 320-381: the page record, ids counted on from next_id
PageContent(words, actual_page_num, next_id) ==
    LET units == PageUnitsOf(words)
    IN  [page_number   |-> actual_page_num,
         content_units |-> [k \in DOMAIN units |->
                               [units[k] EXCEPT !.id = next_id + k - 1]]]

\* lines 301-302
FirstPage == IF start_page = 0 THEN 1 ELSE start_page

\* lines 303-306: the loop ends before this page
StopPage == IF end_page = 0 THEN Len(pdf_pages) + 1 ELSE end_page

\* lines 307-381: one page is classified and its record appended
PdfProcessPage ==
    /\ pdf_pc = "loop"
    /\ page_num < StopPage
    /\ page_num <= Len(pdf_pages)
    /\ ~BodyRefRaises(pdf_pages[page_num])
    /\ LET page_content ==
              PageContent(pdf_pages[page_num], page_num, content_id)
       IN  /\ result' = Append(result, page_content)
           /\ content_id' = content_id + Len(page_content.content_units)
    /\ page_num' = page_num + 1
    /\ UNCHANGED <<pdf_pages, start_page, end_page, output_file, written,
                   pdf_pc, raised_at>>
    /\ UNCHANGED notPdf

\* lines 313-368: extract_words or a classifier raises; nothing in the
\* function catches it, so the call ends without writing or returning
PdfPageRaises ==
    /\ pdf_pc = "loop"
    /\ page_num < StopPage
    /\ page_num <= Len(pdf_pages)
    /\ pdf_pc' = "raised"
    /\ raised_at' = page_num
    /\ UNCHANGED <<pdf_pages, start_page, end_page, page_num, content_id,
                   result, output_file, written>>
    /\ UNCHANGED notPdf

\* line 307: pdf.pages[page_num] past the last page raises IndexError
PdfIndexError ==
    /\ pdf_pc = "loop"
    /\ page_num < StopPage
    /\ page_num > Len(pdf_pages)
    /\ pdf_pc' = "raised"
    /\ UNCHANGED <<pdf_pages, start_page, end_page, page_num, content_id,
                   result, output_file, written, raised_at>>
    /\ UNCHANGED notPdf

\* lines 383-394: the records are written and returned
PdfWrite ==
    /\ pdf_pc = "loop"
    /\ page_num >= StopPage
    /\ output_file' = result
    /\ written' = TRUE
    /\ pdf_pc' = "done"
    /\ UNCHANGED <<pdf_pages, start_page, end_page, page_num, content_id,
                   result, raised_at>>
    /\ UNCHANGED notPdf

PdfIdle ==
    /\ pdf_pages = <<>>
    /\ start_page = 0
    /\ end_page = 0
    /\ page_num = 0
    /\ content_id = 0
    /\ result = <<>>
    /\ output_file = <<>>
    /\ written = FALSE
    /\ pdf_pc = "idle"
    /\ raised_at = 0

----------------------------------------------------------------------------
(* translate_json_content_with_resume (src/azure_translator_resume.py).     *)
(* A chapter is [chapter, title, content_units]; a unit gets the key        *)
(* azure_translation when it is translated.  Positions in lists count from *)
(* 1 (the code's index + 1); global_index and i are those of the code.      *)

BatchSize == 5

\* text and text.strip()
HasText(t) == Strip(t) # <<>>

\* lines 176-178: a title or a paragraph with text
IsTranslatable(unit) ==
    unit.type \in {"title", "paragraph"} /\ HasText(unit.text)

\* lines 172-185 from unit u of chapter c on, acc being the list so far
RECURSIVE ExtractFrom(_, _, _, _)
ExtractFrom(data, c, u, acc) ==
    IF c > Len(data) THEN acc
    ELSE IF u > Len(data[c].content_units) THEN ExtractFrom(data, c + 1, 1, acc)
    ELSE IF IsTranslatable(data[c].content_units[u])
    THEN ExtractFrom(data, c, u + 1,
             Append(acc, [chapter_idx  |-> c,
                          unit_idx     |-> u,
                          text         |-> data[c].content_units[u].text,
                          type         |-> data[c].content_units[u].type,
                          global_index |-> Len(acc)]))
    ELSE ExtractFrom(data, c, u + 1, acc)

extract_texts_for_translation(data) == ExtractFrom(data, 1, 1, <<>>)

\* lines 157-166: load_progress
LoadProgress(progress) == IF progress = <<>> THEN <<>> ELSE progress[1]

\* line 219: the items whose global_index is not among the completed ones
NotCompleted(items, completed) ==
    SelectSeq(items, LAMBDA item :
        \A k \in DOMAIN completed : completed[k] # item.global_index)

\* lines 200-224: what a run still has to translate
AzRemaining(data, progress) ==
    NotCompleted(extract_texts_for_translation(data), LoadProgress(progress))

\* what the service answers for a text: its rendering in the target language
Translated(t) == <<"zh", ":">> \o t

\* lines 43-124: translate_batch answers with the translations, or with
\* empty strings when the request failed max_retries times
translate_batch(texts, ok) ==
    [j \in DOMAIN texts |-> IF ok THEN Translated(texts[j]) ELSE <<>>]

\* line 241: texts_to_translate[i:i + batch_size]
BatchAt(items, i) ==
    SubSeq(items, i + 1, IF i + BatchSize < Len(items) THEN i + BatchSize
                         ELSE Len(items))

\* lines 254-257: the unit with its azure_translation set
WithTranslation(unit, translation) ==
    [azure_translation |-> translation] @@ unit

\* lines 248-257 for the items of a batch from position j on
RECURSIVE WriteBack(_, _, _, _)
WriteBack(data, batch, translations, j) ==
    IF j > Len(batch) THEN data
    ELSE WriteBack(
             [data EXCEPT ![batch[j].chapter_idx].content_units
                              [batch[j].unit_idx] =
                 WithTranslation(@, IF j <= Len(translations)
                                    THEN translations[j] ELSE <<>>)],
             batch, translations, j + 1)

\* line 237: the file save_json_file writes
AzOutputFile == IF az_same THEN az_input ELSE az_output[1]

AzIdle ==
    /\ az_input = <<>>
    /\ az_output = <<>>
    /\ az_same = FALSE
    /\ az_progress = <<>>
    /\ az_data = <<>>
    /\ az_todo = <<>>
    /\ az_completed = <<>>
    /\ az_i = 0
    /\ az_pc = "idle"
    /\ az_run = 0
    /\ az_ends = <<>>
    /\ az_log = {}

\* lines 200-224: no data, nothing to translate, or nothing left
AzNothingToDo ==
    /\ az_pc = "start"
    /\ AzRemaining(az_input, az_progress) = <<>>
    /\ az_pc' = "ended"
    /\ az_ends' = Append(az_ends, "nothing to do")
    /\ UNCHANGED <<az_input, az_output, az_same, az_progress, az_data,
                   az_todo, az_completed, az_i, az_run, az_log>>
    /\ UNCHANGED notAz

\* lines 227-232: AZURE_TRANSLATOR_KEY is not set
AzInitFails ==
    /\ az_pc = "start"
    /\ AzRemaining(az_input, az_progress) # <<>>
    /\ az_pc' = "ended"
    /\ az_ends' = Append(az_ends, "no key")
    /\ UNCHANGED <<az_input, az_output, az_same, az_progress, az_data,
                   az_todo, az_completed, az_i, az_run, az_log>>
    /\ UNCHANGED notAz

\* lines 200-240: the data is loaded from input_file and the loop is entered
AzEnterLoop ==
    /\ az_pc = "start"
    /\ AzRemaining(az_input, az_progress) # <<>>
    /\ az_data' = az_input
    /\ az_todo' = AzRemaining(az_input, az_progress)
    /\ az_completed' = LoadProgress(az_progress)
    /\ az_i' = 0
    /\ az_pc' = "loop"
    /\ UNCHANGED <<az_input, az_output, az_same, az_progress, az_run,
                   az_ends, az_log>>
    /\ UNCHANGED notAz

\* lines 241-265: a batch is translated, written into data, and the
\* progress file is saved
AzTranslateBatch ==
    /\ az_pc = "loop"
    /\ az_i < Len(az_todo)
    /\ \E ok \in BOOLEAN :
          LET batch == BatchAt(az_todo, az_i)
              texts == [j \in DOMAIN batch |-> batch[j].text]
          IN  az_data' = WriteBack(az_data, batch, translate_batch(texts, ok), 1)
    /\ az_completed' =
          az_completed \o [j \in DOMAIN BatchAt(az_todo, az_i) |->
                              BatchAt(az_todo, az_i)[j].global_index]
    /\ az_progress' = <<az_completed'>>
    /\ az_pc' = "progress saved"
    /\ UNCHANGED <<az_input, az_output, az_same, az_todo, az_i, az_run,
                   az_ends, az_log>>
    /\ UNCHANGED notAz

\* lines 268-274: data is saved to output_path and the batch is complete
AzSaveBatch ==
    /\ az_pc = "progress saved"
    /\ IF az_same
       THEN az_input' = az_data /\ UNCHANGED az_output
       ELSE az_output' = <<az_data>> /\ UNCHANGED az_input
    /\ az_log' = az_log \cup
          {[run |-> az_run, chapter_idx |-> b.chapter_idx,
            unit_idx |-> b.unit_idx,
            translation |-> az_data[b.chapter_idx].content_units
                                [b.unit_idx].azure_translation] :
             b \in {BatchAt(az_todo, az_i)[j] :
                       j \in DOMAIN BatchAt(az_todo, az_i)}}
    /\ az_i' = az_i + BatchSize
    /\ az_pc' = "loop"
    /\ UNCHANGED <<az_same, az_progress, az_data, az_todo, az_completed,
                   az_run, az_ends>>
    /\ UNCHANGED notAz

\* lines 282-287: the run is interrupted between two batches (in
\* translate_batch or in the pause), or an error ends it there
AzInterrupt ==
    /\ az_pc = "loop"
    /\ az_i < Len(az_todo)
    /\ az_pc' = "ended"
    /\ az_ends' = Append(az_ends, "interrupted")
    /\ UNCHANGED <<az_input, az_output, az_same, az_progress, az_data,
                   az_todo, az_completed, az_i, az_run, az_log>>
    /\ UNCHANGED notAz

\* lines 282-287: the run is interrupted after save_progress and before
\* save_json_file
AzInterruptInBatch ==
    /\ az_pc = "progress saved"
    /\ az_pc' = "ended"
    /\ az_ends' = Append(az_ends, "interrupted in a batch")
    /\ UNCHANGED <<az_input, az_output, az_same, az_progress, az_data,
                   az_todo, az_completed, az_i, az_run, az_log>>
    /\ UNCHANGED notAz

\* lines 276-280: all batches are done and the progress file is removed
AzFinish ==
    /\ az_pc = "loop"
    /\ az_i >= Len(az_todo)
    /\ az_progress' = <<>>
    /\ az_pc' = "ended"
    /\ az_ends' = Append(az_ends, "finished")
    /\ UNCHANGED <<az_input, az_output, az_same, az_data, az_todo,
                   az_completed, az_i, az_run, az_log>>
    /\ UNCHANGED notAz

----------------------------------------------------------------------------
(* analyze_font_sizes.  A size is an integer number of tenths; the mean of  *)
(* a group is the pair [sum, count], compared by cross multiplication.      *)

SizeTolerance == 5

\* line 20: the sizes of the words that have one
SizesOf(sizes) == SelectSeq(sizes, LAMBDA z : z # 0)

\* line 24: font_sizes.sort()
SortedSizes(sizes) == SortByKeys(sizes, sizes)

\* lines 32-36: the position in the dict of the first group whose key is
\* within the tolerance of size, 0 when there is none
FirstGroupFor(groups, size) ==
    LET near == {g \in DOMAIN groups :
                    Abs(size - groups[g].key) <= SizeTolerance}
    IN  IF near = {} THEN 0 ELSE SetMin(near)

RECURSIVE SumOf(_)
SumOf(sizes) == IF sizes = <<>> THEN 0 ELSE sizes[1] + SumOf(Tail(sizes))

\* line 41: sum(v) / len(v)
MeanOf(sizes) == [sum |-> SumOf(sizes), count |-> Len(sizes)]

MeanLess(a, b) == a.sum * b.count < b.sum * a.count

MeanLessEq(a, b) == a.sum * b.count <= b.sum * a.count

\* line 47: sorted(avg_sizes.items(), key=lambda x: x[1]), a stable sort
SortedByMean(items) ==
    LET rank(i) ==
            Cardinality({j \in DOMAIN items :
                            \/ MeanLess(items[j].mean, items[i].mean)
                            \/ /\ ~MeanLess(items[i].mean, items[j].mean)
                               /\ j < i}) + 1
    IN  [r \in DOMAIN items |-> items[CHOOSE i \in DOMAIN items : rank(i) = r]]

\* BodyIndex taking the last group
BodyIndex_Last(n) == n

\* line 62: len(sorted_sizes)//2, as a position counted from 1
BodyIndex(n) == (n \div 2) + 1

\* lines 41-70: the returned dict
FontInfoOf(groups) ==
    LET avg_sizes    == [g \in DOMAIN groups |->
                            [key |-> groups[g].key,
                             mean |-> MeanOf(groups[g].sizes)]]
        sorted_sizes == SortedByMean(avg_sizes)
        n            == Len(sorted_sizes)
    IN  [all_sizes      |-> sorted_sizes,
         size_frequency |-> [g \in DOMAIN groups |->
                                [key |-> groups[g].key,
                                 count |-> Len(groups[g].sizes)]],
         avg_sizes      |-> avg_sizes,
         footnote_size  |-> sorted_sizes[1].mean,
         header_size    |-> IF n >= 3 THEN sorted_sizes[n].mean
                            ELSE IF n = 2 THEN sorted_sizes[2].mean
                            ELSE sorted_sizes[1].mean,
         body_size      |-> IF n >= 3 THEN sorted_sizes[BodyIndex(n)].mean
                            ELSE IF n = 2 THEN sorted_sizes[2].mean
                            ELSE sorted_sizes[1].mean]

FsIdle ==
    /\ fs_words = <<>>
    /\ font_sizes = <<>>
    /\ fs_k = 0
    /\ size_groups = <<>>
    /\ font_info = <<>>
    /\ fs_pc = "idle"
    /\ fs_bucket = <<>>

\* lines 20-22: no word has a size, {} is returned
FsNoSizes ==
    /\ fs_pc = "start"
    /\ SizesOf(fs_words) = <<>>
    /\ font_info' = <<>>
    /\ fs_pc' = "done"
    /\ UNCHANGED <<fs_words, font_sizes, fs_k, size_groups, fs_bucket>>
    /\ UNCHANGED notFs

\* lines 20-28: the sizes are collected and sorted
FsSort ==
    /\ fs_pc = "start"
    /\ SizesOf(fs_words) # <<>>
    /\ font_sizes' = SortedSizes(SizesOf(fs_words))
    /\ fs_k' = 1
    /\ size_groups' = <<>>
    /\ fs_pc' = "loop"
    /\ UNCHANGED <<fs_words, font_info, fs_bucket>>
    /\ UNCHANGED notFs

\* lines 30-36: the size joins the first group whose key is near enough
FsJoinGroup ==
    /\ fs_pc = "loop"
    /\ fs_k <= Len(font_sizes)
    /\ LET g == FirstGroupFor(size_groups, font_sizes[fs_k])
       IN  /\ g # 0
           /\ size_groups' =
                 [size_groups EXCEPT ![g].sizes = Append(@, font_sizes[fs_k])]
           /\ fs_bucket' = Append(fs_bucket, size_groups[g].key)
    /\ fs_k' = fs_k + 1
    /\ UNCHANGED <<fs_words, font_sizes, font_info, fs_pc>>
    /\ UNCHANGED notFs

\* lines 30-38: no group is near enough, the size starts one
FsNewGroup ==
    /\ fs_pc = "loop"
    /\ fs_k <= Len(font_sizes)
    /\ FirstGroupFor(size_groups, font_sizes[fs_k]) = 0
    /\ size_groups' =
          Append(size_groups,
                 [key |-> font_sizes[fs_k], sizes |-> <<font_sizes[fs_k]>>])
    /\ fs_bucket' = Append(fs_bucket, font_sizes[fs_k])
    /\ fs_k' = fs_k + 1
    /\ UNCHANGED <<fs_words, font_sizes, font_info, fs_pc>>
    /\ UNCHANGED notFs

\* lines 41-72: the means, the order and the three tiers
FsReturn ==
    /\ fs_pc = "loop"
    /\ fs_k > Len(font_sizes)
    /\ font_info' = <<FontInfoOf(size_groups)>>
    /\ fs_pc' = "done"
    /\ UNCHANGED <<fs_words, font_sizes, fs_k, size_groups, fs_bucket>>
    /\ UNCHANGED notFs

----------------------------------------------------------------------------
(* group_words_to_lines called on its own                                   *)

GwIdle ==
    /\ gw_words = <<>>
    /\ gw_lines = <<>>
    /\ gw_pc = "idle"

\* lines 74-98, with the default y_tolerance
GroupWords ==
    /\ gw_pc = "start"
    /\ gw_lines' = group_words_to_lines(gw_words, DefaultYTolerance)
    /\ gw_pc' = "done"
    /\ UNCHANGED gw_words
    /\ UNCHANGED notGw

----------------------------------------------------------------------------
(* extract_body_paragraphs_with_footnote_refs called on its own, one loop   *)
(* pass at a time                                                           *)

BpIdle ==
    /\ bp_words = <<>>
    /\ body_lines = <<>>
    /\ bp_k = 0
    /\ body_paragraphs = <<>>
    /\ bp_current_para = <<>>
    /\ bp_first_para = TRUE
    /\ bp_result = <<>>
    /\ bp_pc = "idle"
    /\ bp_fired = <<>>

\* lines 149-170: the body words are selected and grouped into lines
BpGroupLines ==
    /\ bp_pc = "start"
    /\ ~BodyRefRaises(bp_words)
    /\ body_lines' =
          group_words_to_lines(BodyWordsOf(bp_words), DefaultYTolerance)
    /\ bp_k' = 1
    /\ body_paragraphs' = <<>>
    /\ bp_current_para' = <<>>
    /\ bp_first_para' = TRUE
    /\ bp_pc' = "loop"
    /\ UNCHANGED <<bp_words, bp_result, bp_fired>>
    /\ UNCHANGED notBp

\* lines 176-197: is_new_para for the line at bp_k
BpIsNewPara ==
    is_new_para(bp_first_para, body_lines[bp_k][1].x0,
                clean_hyphenated_text(LineText(body_lines[bp_k])))

\* the state of the loop after the pass for the line at bp_k
BpAfterLine ==
    ParaStep([paras        |-> body_paragraphs,
              current_para |-> bp_current_para,
              first_para   |-> bp_first_para],
             body_lines[bp_k])

\* lines 172-209: the buffer is flushed and the line opens a new paragraph
BpFlush ==
    /\ bp_pc = "loop"
    /\ bp_k <= Len(body_lines)
    /\ Len(BpAfterLine.paras) > Len(body_paragraphs)
    /\ body_paragraphs' = BpAfterLine.paras
    /\ bp_current_para' = BpAfterLine.current_para
    /\ bp_first_para' = BpAfterLine.first_para
    /\ bp_fired' = Append(bp_fired, BpIsNewPara)
    /\ bp_k' = bp_k + 1
    /\ UNCHANGED <<bp_words, body_lines, bp_result, bp_pc>>
    /\ UNCHANGED notBp

\* lines 172-209: the line is appended to the buffer
BpAppend ==
    /\ bp_pc = "loop"
    /\ bp_k <= Len(body_lines)
    /\ Len(BpAfterLine.paras) = Len(body_paragraphs)
    /\ body_paragraphs' = BpAfterLine.paras
    /\ bp_current_para' = BpAfterLine.current_para
    /\ bp_first_para' = BpAfterLine.first_para
    /\ bp_fired' = Append(bp_fired, BpIsNewPara)
    /\ bp_k' = bp_k + 1
    /\ UNCHANGED <<bp_words, body_lines, bp_result, bp_pc>>
    /\ UNCHANGED notBp

\* lines 211-216: the open buffer is flushed and the list is returned
BpReturn ==
    /\ bp_pc = "loop"
    /\ bp_k > Len(body_lines)
    /\ bp_result' =
          ParaLoop([paras        |-> body_paragraphs,
                    current_para |-> bp_current_para,
                    first_para   |-> bp_first_para], <<>>)
    /\ bp_pc' = "done"
    /\ UNCHANGED <<bp_words, body_lines, bp_k, body_paragraphs,
                   bp_current_para, bp_first_para, bp_fired>>
    /\ UNCHANGED notBp

----------------------------------------------------------------------------
(* Specification SpecHyphen: clean_hyphenated_text applied repeatedly       *)

MaxTextLen == 7

HyphenAlphabet == {"a", "-", " "}

HyInit ==
    /\ text \in SeqsUpTo(HyphenAlphabet, MaxTextLen)
    /\ passes = 0
    /\ first_pass = <<>>

HyIdle ==
    /\ text = <<>>
    /\ passes = 0
    /\ first_pass = <<>>

ApplyClean ==
    /\ passes < 2
    /\ text' = clean_hyphenated_text(text)
    /\ passes' = passes + 1
    /\ first_pass' = IF passes = 0 THEN text' ELSE first_pass
    /\ UNCHANGED notHy

InitHyphen == HyInit /\ ParseIdle /\ MergeIdle /\ FnIdle /\ TtIdle /\ PdfIdle /\ TxtIdle /\ AzIdle /\ FsIdle /\ GwIdle /\ BpIdle

NextHyphen == ApplyClean

SpecHyphen == InitHyphen /\ [][NextHyphen]_vars

\* C1: hyphenation repair is idempotent: cleaning the result of
\* clean_hyphenated_text again gives the same string, for every input.
C1_Idempotent == passes = 2 => text = first_pass

----------------------------------------------------------------------------
(* Specification SpecMerge: merge_split_paragraphs on every unit list       *)

MaxUnits == 5

IdTag == <<"1", "2", "3", "4", "5", "6", "7", "8", "9">>

\* what a unit of the argument may be: a footnote, or a paragraph whose text
\* is empty or starts with a lowercase or an uppercase letter
UnitShapes == {"footnote", "empty", "lower", "upper"}

ShapeUnit(shape, id) ==
    CASE shape = "footnote" -> Footnote(id, <<"9">>, <<"f", IdTag[id]>>)
      [] shape = "empty"    -> Paragraph(id, <<>>)
      [] shape = "lower"    -> Paragraph(id, <<"a", IdTag[id]>>)
      [] shape = "upper"    -> Paragraph(id, <<"A", IdTag[id]>>)

\* the ids of the argument, distinct: ascending from 1, or descending to 1
MergeInputs ==
    {[k \in 1..Len(shapes) |->
         ShapeUnit(shapes[k], IF up THEN k ELSE Len(shapes) + 1 - k)] :
       shapes \in SeqsUpTo(UnitShapes, MaxUnits), up \in BOOLEAN}

InitMerge ==
    /\ BpIdle
    /\ GwIdle
    /\ FsIdle
    /\ AzIdle
    /\ TxtIdle
    /\ PdfIdle
    /\ HyIdle
    /\ ParseIdle
    /\ FnIdle
    /\ TtIdle
    /\ content_units \in MergeInputs
    /\ input_units = content_units
    /\ merged_units = <<>>
    /\ merge_i = 0
    /\ merge_pc = "start"
    /\ merge_result = <<>>

NextMerge == MergeNext

SpecMerge == InitMerge /\ [][NextMerge]_vars

(* The claims about merge_split_paragraphs are stated over the argument as   *)
(* it was passed (input_units) and the returned list (merge_result).        *)

MergeDone == merge_pc = "done" /\ parse_pc = "idle"

InLen == Len(input_units)

InIsParagraph(k) == input_units[k].type = "paragraph"

\* position k holds a paragraph that starts with a lowercase letter and
\* follows a footnote
InIsFragment(k) ==
    /\ k > 1
    /\ input_units[k - 1].type = "footnote"
    /\ InIsParagraph(k)
    /\ input_units[k].text # <<>>
    /\ input_units[k].text[1] \in LowerChars

\* the fragment at k has an earlier paragraph that survives, and is absorbed
RECURSIVE InAbsorbed(_)
InAbsorbed(k) ==
    /\ InIsFragment(k)
    /\ \E p \in 1..(k - 1) : InIsParagraph(p) /\ ~InAbsorbed(p)

\* the nearest earlier surviving paragraph of position k
InHost(k) ==
    SetMax({p \in 1..(k - 1) : InIsParagraph(p) /\ ~InAbsorbed(p)})

\* the positions absorbed into position p, ascending from position `from`
RECURSIVE InFragmentsFrom(_, _)
InFragmentsFrom(p, from) ==
    IF from > InLen THEN <<>>
    ELSE IF InAbsorbed(from) /\ InHost(from) = p
         THEN <<from>> \o InFragmentsFrom(p, from + 1)
         ELSE InFragmentsFrom(p, from + 1)

InFragments(p) == InFragmentsFrom(p, p + 1)

\* the text of position p followed by the texts of the positions ks, each
\* after one blank
RECURSIVE TextWith(_, _)
TextWith(t, ks) ==
    IF ks = <<>> THEN t
    ELSE TextWith(t \o <<" ">> \o input_units[ks[1]].text, Tail(ks))

\* the position in the argument of the unit with this id
InPosOf(id) == CHOOSE k \in 1..InLen : input_units[k].id = id

EmittedCount(id) ==
    Cardinality({r \in DOMAIN merge_result : merge_result[r].id = id})

NotedCount(id) ==
    Cardinality({rn \in {<<r, n>> : r \in DOMAIN merge_result, n \in 1..InLen} :
                    /\ rn[2] \in DOMAIN merge_result[rn[1]].note
                    /\ merge_result[rn[1]].note[rn[2]] = NoteFor(id)})

\* C2: after merge_split_paragraphs every input id is the id of exactly one
\* returned unit or is recorded in exactly one returned unit's note list,
\* never both, and never neither.
C2_IdsPartitioned ==
    MergeDone =>
        \A k \in 1..InLen :
            EmittedCount(input_units[k].id) + NotedCount(input_units[k].id) = 1

C2_Witness ==
    /\ MergeDone
    /\ InLen >= 3
    /\ \E r \in DOMAIN merge_result : merge_result[r].note # <<>>
    /\ \E k \in 1..InLen : NotedCount(input_units[k].id) = 1

\* C3: a lowercase paragraph right after a footnote is absorbed into the
\* nearest earlier surviving paragraph when there is one: it is not emitted,
\* its id is in that unit's note list, and its text follows one blank after
\* what that unit held before.
C3_FragmentAbsorbed ==
    MergeDone =>
        \A k \in 1..InLen :
            (InIsFragment(k) /\
             \E p \in 1..(k - 1) : InIsParagraph(p) /\ ~InAbsorbed(p)) =>
                LET host   == InHost(k)
                    before == SelectSeq(InFragments(host), LAMBDA f : f < k)
                    offset == Len(TextWith(input_units[host].text, before))
                    frag   == <<" ">> \o input_units[k].text
                IN  /\ EmittedCount(input_units[k].id) = 0
                    /\ \E r \in DOMAIN merge_result :
                          /\ merge_result[r].id = input_units[host].id
                          /\ \E n \in DOMAIN merge_result[r].note :
                                merge_result[r].note[n] =
                                    NoteFor(input_units[k].id)
                          /\ SubSeq(merge_result[r].text, offset + 1,
                                    offset + Len(frag)) = frag

\* paragraph, paragraph, footnote, lowercase paragraph: the nearest one absorbs
C3_Witness ==
    /\ MergeDone
    /\ InLen = 4
    /\ InIsParagraph(1) /\ InIsParagraph(2) /\ InIsFragment(4)
    /\ Len(merge_result) = 3
    /\ merge_result[2].note = <<NoteFor(input_units[4].id)>>
    /\ merge_result[1].note = <<>>

\* C4: merging preserves order: a returned unit's text is its own text then
\* the absorbed fragments' texts in their original order, one blank between;
\* its note list names them in that order; the returned units keep their
\* original relative order.
C4_OrderPreserved ==
    MergeDone =>
        /\ \A r \in DOMAIN merge_result :
              LET p  == InPosOf(merge_result[r].id)
                  ks == InFragments(p)
              IN  /\ merge_result[r].text = TextWith(input_units[p].text, ks)
                  /\ merge_result[r].note =
                        [n \in 1..Len(ks) |-> NoteFor(input_units[ks[n]].id)]
        /\ \A r1, r2 \in DOMAIN merge_result :
              r1 < r2 => InPosOf(merge_result[r1].id) < InPosOf(merge_result[r2].id)

\* one paragraph absorbs two fragments
C4_Witness ==
    /\ MergeDone
    /\ \E r \in DOMAIN merge_result : Len(merge_result[r].note) = 2

----------------------------------------------------------------------------
(* Specification SpecParse: parse_chapter_content on a chapter's text        *)

MaxLines == 3

\* the lines a chapter is made of: blank, a drop cap, lowercase text,
\* capitalised text, a footnote, a bare number, padded text
ChapterLines ==
    {<<>>, <<"T">>, <<"h", "e">>, <<"A", "b">>, <<"1", " ", "f">>, <<"7">>,
     <<" ", "a", " ">>}

\* parse_txt_to_json strips the chapter's text (line 83): it is empty, or
\* its first line starts and its last line ends with a non-blank character
IsStrippedContent(ls) ==
    \/ ls = << <<>> >>
    \/ /\ ls[1] # <<>> /\ ~IsSpaceChar(ls[1][1])
       /\ ls[Len(ls)] # <<>> /\ ~IsSpaceChar(ls[Len(ls)][Len(ls[Len(ls)])])

InitParse ==
    /\ BpIdle
    /\ GwIdle
    /\ FsIdle
    /\ AzIdle
    /\ TxtIdle
    /\ PdfIdle
    /\ HyIdle
    /\ FnIdle
    /\ TtIdle
    /\ lines \in {ls \in SeqsUpTo(ChapterLines, MaxLines) :
                     Len(ls) >= 1 /\ IsStrippedContent(ls)}
    /\ line_i = 1
    /\ unit_id = 1
    /\ parse_pc = "loop"
    /\ content_units = <<>>
    /\ merged_units = <<>>
    /\ merge_i = 0
    /\ merge_pc = "idle"
    /\ merge_result = <<>>
    /\ input_units = <<>>

NextParse ==
    \/ ParseSkipBlank
    \/ ParseDropCap
    \/ ParseFootnote
    \/ ParseParagraph
    \/ ParseCallMerge
    \/ MergeNext
    \/ ParseReturn

SpecParse == InitParse /\ [][NextParse]_vars

ParseDone == parse_pc = "done"

\* the stripped first line is a single uppercase letter
FirstLineIsDropCap ==
    Len(Strip(lines[1])) = 1 /\ Strip(lines[1])[1] \in UpperChars

\* the positions after the first line that hold text
LaterTextLines == {k \in 2..Len(lines) : Strip(lines[k]) # <<>>}

\* C7: when a chapter starts with a single uppercase letter, the letter is
\* joined onto the next non-empty line, also across blank lines, and is not
\* a unit of its own: the first unit's text starts with letter + that line.
C7_DropCapJoined ==
    (ParseDone /\ FirstLineIsDropCap /\ LaterTextLines # {}) =>
        LET joined == Strip(lines[1]) \o Strip(lines[SetMin(LaterTextLines)])
        IN  /\ merge_result # <<>>
            /\ Len(merge_result[1].text) >= Len(joined)
            /\ SubSeq(merge_result[1].text, 1, Len(joined)) = joined

----------------------------------------------------------------------------
(* Specification SpecFootnotes: extract_footnotes_improved on a page's words *)

MaxFnWords == 3

\* footnote-band words on three lines, 12 and 30 units below the first, and
\* one word above the band
FootnoteWords ==
    {Word(t, 720, y, 80) :
        t \in {<<"9">>, <<"q">>, <<"2", "3", "3">>}, y \in {4600, 4720, 4900}}
    \cup {Word(<<"q">>, 720, 4500, 80)}

InitFootnotes ==
    /\ BpIdle
    /\ GwIdle
    /\ FsIdle
    /\ AzIdle
    /\ TxtIdle
    /\ PdfIdle
    /\ HyIdle
    /\ ParseIdle
    /\ MergeIdle
    /\ TtIdle
    /\ fn_words \in SeqsUpTo(FootnoteWords, MaxFnWords)
    /\ footnote_lines = FootnoteLinesOf(fn_words)
    /\ fn_k = 1
    /\ footnotes = <<>>
    /\ current_footnote = <<>>
    /\ fn_result = <<>>
    /\ fn_pc = "loop"
    /\ fn_branch = <<>>

NextFootnotes ==
    \/ FnOpen
    \/ FnContinue
    \/ FnNoneOpen
    \/ FnTooFar
    \/ FnReturn

SpecFootnotes == InitFootnotes /\ [][NextFootnotes]_vars

(* The claims about extract_footnotes_improved are stated over the lines of  *)
(* the footnote band, the footnotes collected by the loop and the returned  *)
(* list.                                                                   *)

FnDone == fn_pc = "done"

FnLineCount == Len(footnote_lines)

FnText(k) == FootnoteLineText(footnote_lines[k])

\* the vertical position of a line: that of its first word
FnY(k) == footnote_lines[k][1].top

\* the line starts with an integer
FnNumbered(k) == FnText(k) # <<>> /\ FnText(k)[1] \in DigitChars

\* the numbered line whose footnote is open when line k arrives, 0 for none
FnOpener(k) ==
    LET before == {o \in 1..(k - 1) : FnNumbered(o)}
    IN  IF before = {} THEN 0 ELSE SetMax(before)

\* line k continues the open footnote: strictly less than 30 units from the
\* line that opened it
FnWithin(k) ==
    /\ ~FnNumbered(k)
    /\ FnOpener(k) # 0
    /\ Abs(FnY(k) - FnY(FnOpener(k))) < 300

\* the n-th numbered line
RECURSIVE FnNumberedFrom(_)
FnNumberedFrom(k) ==
    IF k > FnLineCount THEN <<>>
    ELSE IF FnNumbered(k) THEN <<k>> \o FnNumberedFrom(k + 1)
    ELSE FnNumberedFrom(k + 1)

FnOpeners == FnNumberedFrom(1)

\* the text of a numbered line after its leading digits, stripped
FnRemainder(o) ==
    Strip(SubSeq(FnText(o), DigitRunEnd(FnText(o), 1), Len(FnText(o))))

\* the content lines of the footnote opened by line o
RECURSIVE FnContinuationsFrom(_, _)
FnContinuationsFrom(o, k) ==
    IF k > FnLineCount \/ FnNumbered(k) THEN <<>>
    ELSE IF FnWithin(k) THEN <<FnText(k)>> \o FnContinuationsFrom(o, k + 1)
    ELSE FnContinuationsFrom(o, k + 1)

FnExpectedContent(o) ==
    (IF FnRemainder(o) # <<>> THEN <<FnRemainder(o)>> ELSE <<>>)
        \o FnContinuationsFrom(o, o + 1)

\* the loop collected one footnote per numbered line, each holding exactly
\* the lines that arrived within reach while it was open
FnContentsAsExpected ==
    /\ Len(footnotes) = Len(FnOpeners)
    /\ \A f \in DOMAIN footnotes :
          /\ footnotes[f].start_y = FnY(FnOpeners[f])
          /\ footnotes[f].content = FnExpectedContent(FnOpeners[f])

\* C6 as stated: a line without a leading integer that arrives while a
\* footnote is open is appended if and only if it is within 30 units of the
\* opening line, and every footnote's source_text is its content lines joined
\* by single blanks.
C6_SourceTextIsContent ==
    FnDone =>
        /\ FnContentsAsExpected
        /\ \A f \in DOMAIN footnotes :
              \E r \in DOMAIN fn_result :
                  /\ fn_result[r].start_y = footnotes[f].start_y
                  /\ fn_result[r].original_id = footnotes[f].original_id
                  /\ fn_result[r].source_text =
                        Join(footnotes[f].content, <<" ">>)

\* footnote f is folded into a footnote 9 before it (lines 279-283)
FnFolded(f) ==
    /\ footnotes[f].original_id \in {<<"2", "3", "3">>, <<"2", "4", "1">>}
    /\ \E g \in 1..(f - 1) :
          /\ footnotes[g].original_id = <<"9">>
          /\ \A h \in (g + 1)..(f - 1) :
                footnotes[h].original_id \in
                    {<<"2", "3", "3">>, <<"2", "4", "1">>}

\* the joined content of footnote f, then that of the folded footnotes that
\* directly follow it, each after one blank
RECURSIVE FnTextWithFolded(_, _)
FnTextWithFolded(t, g) ==
    IF g > Len(footnotes) \/ ~FnFolded(g) THEN t
    ELSE FnTextWithFolded(t \o <<" ">> \o Join(footnotes[g].content, <<" ">>),
                          g + 1)

RECURSIVE FnKeptFrom(_)
FnKeptFrom(f) ==
    IF f > Len(footnotes) THEN <<>>
    ELSE IF FnFolded(f) THEN FnKeptFrom(f + 1)
    ELSE <<f>> \o FnKeptFrom(f + 1)

\* C6 (amended): the continuation rule as stated, with "within" strict; the
\* returned footnotes are those not folded, in order, and the source_text of
\* each is its content lines joined by single blanks, followed for a
\* footnote 9 by the joined content of the footnotes 233 and 241 that
\* directly follow it.
C6_ContinuationWithinReach ==
    FnDone =>
        /\ FnContentsAsExpected
        /\ LET kept == FnKeptFrom(1)
           IN  /\ Len(fn_result) = Len(kept)
               /\ \A r \in DOMAIN fn_result :
                     /\ fn_result[r].original_id =
                           footnotes[kept[r]].original_id
                     /\ fn_result[r].source_text =
                           FnTextWithFolded(
                               Join(footnotes[kept[r]].content, <<" ">>),
                               kept[r] + 1)

\* "9 q" with "q" 12 units lower: one footnote 9 with source_text "q q"
C6_Witness ==
    /\ FnDone
    /\ fn_branch = <<"open", "continue">>
    /\ Len(footnote_lines[1]) = 2
    /\ FnY(2) - FnY(1) = 120
    /\ Len(fn_result) = 1
    /\ fn_result[1].original_id = <<"9">>
    /\ fn_result[1].source_text = <<"q", " ", "q">>

\* C9: a line of the footnote band without a leading integer that arrives
\* when no footnote is open, or 30 or more units below the open footnote's
\* opening line, is kept as a unit of its own in the returned list.
C9_OrphanLineKept ==
    FnDone =>
        \A k \in 1..FnLineCount :
            (~FnNumbered(k) /\ ~FnWithin(k)) =>
                \E r \in DOMAIN fn_result : fn_result[r].source_text = FnText(k)

----------------------------------------------------------------------------
(* Specification SpecTitles: extract_titles on a page's words                *)

MaxTitleWords == 3

\* title-size words at three heights within one unit of each other, and a
\* smaller word
TitleWords ==
    {Word(t, x, y, 120) :
        t \in {<<"A">>, <<"B">>}, x \in {720, 1000}, y \in {994, 996, 1002}}
    \cup {Word(<<"b">>, 720, 994, 65)}

InitTitles ==
    /\ BpIdle
    /\ GwIdle
    /\ FsIdle
    /\ AzIdle
    /\ TxtIdle
    /\ PdfIdle
    /\ HyIdle
    /\ ParseIdle
    /\ MergeIdle
    /\ FnIdle
    /\ tt_words \in SeqsUpTo(TitleWords, MaxTitleWords)
    /\ titles = <<>>
    /\ tt_pc = "start"

NextTitles == ExtractTitles

SpecTitles == InitTitles /\ [][NextTitles]_vars

\* the words of the argument that are of title size in the top band
TtSelected ==
    SelectSeq(tt_words, LAMBDA w : w.size > 70 /\ w.top < 2000)

\* C8: title-size words of the top band whose vertical positions all lie
\* within 1 unit of each other are returned as one title, the words joined
\* in increasing x0 order.
C8_CloseLinesOneTitle ==
    (/\ tt_pc = "done"
     /\ TtSelected # <<>>
     /\ \A a, b \in DOMAIN TtSelected :
           Abs(TtSelected[a].top - TtSelected[b].top) <= 10) =>
        titles = <<LineText(SortedByX0(TtSelected))>>

----------------------------------------------------------------------------
(* Specification SpecPdf: pdf_to_json_final over the pages of a document     *)

MaxPages == 2

MaxDocWords == 2

\* a title, a body-size word in the title band, a body word, a header word
\* and two footnote-band words
PdfTokens ==
    {Word(<<"T">>, 720, 1500, 120),
     Word(<<"b">>, 1000, 1000, 105),
     Word(<<"A">>, 720, 3000, 105),
     Word(<<"4">>, 720, 500, 65),
     Word(<<"9">>, 720, 4600, 80),
     Word(<<"q">>, 720, 4720, 80)}

\* the documents of n pages holding at most budget words
RECURSIVE DocsOf(_, _)
DocsOf(n, budget) ==
    IF n = 0 THEN {<<>>}
    ELSE UNION {{<<pg>> \o d : d \in DocsOf(n - 1, budget - Len(pg))} :
                   pg \in SeqsUpTo(PdfTokens, budget)}

InitPdf ==
    /\ BpIdle
    /\ GwIdle
    /\ FsIdle
    /\ AzIdle
    /\ TxtIdle
    /\ HyIdle
    /\ ParseIdle
    /\ MergeIdle
    /\ FnIdle
    /\ TtIdle
    /\ pdf_pages \in UNION {DocsOf(n, MaxDocWords) : n \in 0..MaxPages}
    /\ start_page \in {0, 2}
    /\ end_page \in {0, Len(pdf_pages) + 2}
    /\ page_num = FirstPage
    /\ content_id = 1
    /\ result = <<>>
    /\ output_file = <<>>
    /\ written = FALSE
    /\ pdf_pc = "loop"
    /\ raised_at = 0

NextPdf ==
    \/ PdfProcessPage
    \/ PdfPageRaises
    \/ PdfIndexError
    \/ PdfWrite

SpecPdf == InitPdf /\ [][NextPdf]_vars

\* C5: on every page record the unit ids increase strictly in list order,
\* and no unit precedes a unit whose source line lies higher on the page.
C5_IdsFollowLineOrder ==
    \A p \in DOMAIN result :
        \A a, b \in DOMAIN result[p].content_units :
            a < b =>
                /\ result[p].content_units[a].id < result[p].content_units[b].id
                /\ result[p].content_units[a].src_top
                      <= result[p].content_units[b].src_top

\* the pages of the range that exist and whose processing did not raise
PdfSoundPages ==
    {p \in FirstPage..(StopPage - 1) : p <= Len(pdf_pages) /\ p # raised_at}

\* C10: a failure on one page is isolated: when the call has ended, the
\* written output holds the record of every page of the range that did not
\* fail, also of the pages after the one that failed.
C10_FailureIsolated ==
    (pdf_pc \in {"done", "raised"} /\ raised_at # 0) =>
        \A p \in PdfSoundPages :
            /\ written
            /\ \E k \in DOMAIN output_file : output_file[k].page_number = p

----------------------------------------------------------------------------
(* Specification SpecTxt: parse_all_chapters on a missing file, on every    *)
(* short content, and on documents of whole chapters                        *)

MaxContentLen == 6

MaxChapters == 2

TxtAlphabet == {ChapterWord, " ", NewLine, "a", "1"}

\* what may stand before the first chapter
DocPreambles == {<<>>, <<"a", NewLine>>}

\* a marker line and a title line: "CHAPTER 1\nA\n", and "CHAPTER A\nA \n\n"
DocMarkers ==
    {<<ChapterWord, " ", "1", NewLine, "A", NewLine>>,
     <<ChapterWord, " ", "A", NewLine, "A", " ", NewLine, NewLine>>}

\* a chapter's text: a drop cap, a paragraph, a footnote and the rest of the
\* paragraph; a footnote and a fragment; one paragraph; nothing
DocBodies ==
    {<<"T", NewLine, "h", "e", NewLine, NewLine, "1", " ", "f", NewLine,
       "b", NewLine>>,
     <<"1", " ", "f", NewLine, "b", NewLine>>,
     <<"a", NewLine>>,
     <<>>}

RECURSIVE DocsOfChapters(_)
DocsOfChapters(n) ==
    IF n = 0 THEN {<<>>}
    ELSE {m \o b \o rest :
             m \in DocMarkers, b \in DocBodies, rest \in DocsOfChapters(n - 1)}

TxtContents ==
    SeqsUpTo(TxtAlphabet, MaxContentLen)
        \cup {p \o d : p \in DocPreambles,
                       d \in UNION {DocsOfChapters(n) : n \in 1..MaxChapters}}

InitTxt ==
    /\ BpIdle
    /\ GwIdle
    /\ FsIdle
    /\ AzIdle
    /\ HyIdle
    /\ ParseIdle
    /\ MergeIdle
    /\ FnIdle
    /\ TtIdle
    /\ PdfIdle
    /\ txt_file \in {<<>>} \cup {<<c>> : c \in TxtContents}
    /\ chapter_matches = <<>>
    /\ txt_k = 0
    /\ chapters = <<>>
    /\ txt_files = <<>>
    /\ txt_pc = "start"

NextTxt ==
    \/ TxtReadFails
    \/ TxtFindChapters
    \/ TxtBeginChapter
    \/ ParseSkipBlank
    \/ ParseDropCap
    \/ ParseFootnote
    \/ ParseParagraph
    \/ ParseCallMerge
    \/ MergeNext
    \/ ParseReturn
    \/ TxtEndChapter
    \/ TxtSave
    \/ TxtReportNone

SpecTxt == InitTxt /\ [][NextTxt]_vars

\* the file is there and the word CHAPTER is nowhere in it
TxtNoChapterWord ==
    /\ txt_file # <<>>
    /\ \A k \in 1..Len(txt_file[1]) : txt_file[1][k] # ChapterWord

\* C11: for a text without a chapter marker (one without the word CHAPTER,
\* or one in which the marker pattern matches nowhere) parse_txt_to_json
\* returns the empty chapter list without raising, and parse_all_chapters
\* reports it: it writes no file and does not end in its error handler.
C11_NoMarkerReported ==
    /\ (TxtNoChapterWord /\ txt_pc # "start") => chapter_matches = <<>>
    /\ (txt_file # <<>> /\ txt_pc # "start" /\ chapter_matches = <<>>) =>
          /\ chapters = <<>>
          /\ txt_files = <<>>
          /\ txt_pc \in {"chapters", "none_found"}

C11_Witness ==
    /\ txt_pc = "none_found"
    /\ TxtNoChapterWord
    /\ Len(txt_file[1]) >= 3
    /\ chapters = <<>>

----------------------------------------------------------------------------
(* Specification SpecOriginalId: the three places a footnote's number can   *)
(* be set or lost, each run on its own inputs: merge_split_paragraphs,      *)
(* parse_chapter_content and extract_footnotes_improved                     *)

InitOriginalId == InitMerge \/ InitParse \/ InitFootnotes

NextOriginalId == NextParse \/ NextFootnotes

SpecOriginalId == InitOriginalId /\ [][NextOriginalId]_vars

FootnoteUnitsOf(units) == SelectSeq(units, LAMBDA u : u.type = "footnote")

OriginalIdsOf(units) == [k \in DOMAIN units |-> units[k].original_id]

\* the leading digit run of a string
LeadingDigits(t) == SubSeq(t, 1, DigitRunEnd(t, 1) - 1)

\* line k of the chapter opens a footnote: stripped, it is digits followed
\* by whitespace, and it is not the line a drop cap on line 1 was joined to
TxtOpensFootnote(k) ==
    LET line == Strip(lines[k])
        d    == DigitRunEnd(line, 1)
    IN  /\ d > 1 /\ d <= Len(line) /\ IsSpaceChar(line[d])
        /\ ~(k = 2 /\ Len(Strip(lines[1])) = 1
                  /\ Strip(lines[1])[1] \in UpperChars)

\* the numbers of the chapter's footnote lines, in line order
RECURSIVE TxtFootnoteIdsFrom(_)
TxtFootnoteIdsFrom(k) ==
    IF k > Len(lines) THEN <<>>
    ELSE IF TxtOpensFootnote(k)
    THEN <<LeadingDigits(Strip(lines[k]))>> \o TxtFootnoteIdsFrom(k + 1)
    ELSE TxtFootnoteIdsFrom(k + 1)

\* C12: a footnote's original_id is the leading digit run of the line that
\* opened it and never changes: merge_split_paragraphs leaves the footnote
\* units, their fields and their order as they were, the footnotes of a
\* parsed chapter carry the numbers of its footnote lines in line order, and
\* every footnote extract_footnotes_improved returns, after the fold, carries
\* the number of the numbered line it began on.
C12_OriginalIdFixed ==
    /\ merge_pc \in {"start", "loop", "done"} =>
          FootnoteUnitsOf(content_units) = FootnoteUnitsOf(input_units)
    /\ merge_pc = "done" =>
          FootnoteUnitsOf(merge_result) = FootnoteUnitsOf(input_units)
    /\ parse_pc = "done" =>
          OriginalIdsOf(FootnoteUnitsOf(merge_result)) = TxtFootnoteIdsFrom(1)
    /\ fn_pc = "done" =>
          /\ \A r \in DOMAIN fn_result :
                \E k \in 1..FnLineCount :
                    /\ FnNumbered(k)
                    /\ FnY(k) = fn_result[r].start_y
                    /\ fn_result[r].original_id = LeadingDigits(FnText(k))
          /\ \A r \in 1..(Len(fn_result) - 1) :
                fn_result[r].start_y < fn_result[r + 1].start_y

\* a chapter whose footnote "1 f" interrupts a paragraph: the fragment is
\* merged across it and the footnote is returned with its number
C12_Witness ==
    /\ parse_pc = "done"
    /\ Len(lines) = 3
    /\ Len(merge_result) = 2
    /\ merge_result[1].note # <<>>
    /\ merge_result[2].type = "footnote"
    /\ merge_result[2].original_id = <<"1">>
    /\ merge_result[2] = input_units[2]

----------------------------------------------------------------------------
(* A fragment with no paragraph before it, under SpecMerge                  *)

\* position k holds a fragment and no paragraph stands before it, so none
\* is in the output when the loop reaches it
InOrphanFragment(k) ==
    InIsFragment(k) /\ \A j \in 1..(k - 1) : ~InIsParagraph(j)

\* C13: a lowercase paragraph that follows a footnote when the output holds
\* no paragraph yet is kept as a unit of its own: it is appended once, with
\* its id and text as they were (later fragments may be appended to it, as
\* to any paragraph), it is in no note list, and the call returns.
C13_OrphanFragmentKept ==
    /\ (merge_pc = "loop" /\ parse_pc = "idle") =>
          \A k \in 1..(merge_i - 1) :
              InOrphanFragment(k) =>
                  /\ Cardinality({j \in DOMAIN merged_units :
                                     merged_units[j] = k}) = 1
                  /\ content_units[k].id = input_units[k].id
                  /\ k = merge_i - 1 => content_units[k] = input_units[k]
    /\ MergeDone =>
          \A k \in 1..InLen :
              InOrphanFragment(k) =>
                  /\ EmittedCount(input_units[k].id) = 1
                  /\ NotedCount(input_units[k].id) = 0
                  /\ \E r \in DOMAIN merge_result :
                        /\ merge_result[r].id = input_units[k].id
                        /\ merge_result[r].text =
                              TextWith(input_units[k].text, InFragments(k))
                        /\ InFragments(k) = <<>> =>
                              merge_result[r] = input_units[k]

\* footnote, lowercase paragraph: both are returned as they came
C13_Witness ==
    /\ MergeDone
    /\ InLen = 2
    /\ InOrphanFragment(2)
    /\ merge_result = input_units

----------------------------------------------------------------------------
(* Specification SpecResume: translate_json_content_with_resume run up to   *)
(* MaxRuns times on one input file                                          *)

MaxAzUnits == 6

MaxRuns == 2

\* what a unit of the input may be: a paragraph, a footnote, a paragraph
\* without text
AzShapes == {"paragraph", "footnote", "blank"}

AzUnit(shape, id) ==
    CASE shape = "paragraph" -> Paragraph(id, <<"a", IdTag[id]>>)
      [] shape = "footnote"  -> Footnote(id, <<"9">>, <<"f", IdTag[id]>>)
      [] shape = "blank"     -> Paragraph(id, <<" ">>)

AzChapter(n, units) ==
    [chapter |-> <<n>>, title |-> <<"A">>, content_units |-> units]

\* the input files: no chapter, one chapter, or two chapters the first of
\* which holds one unit
AzInputs ==
    LET lists == {[k \in 1..Len(shapes) |-> AzUnit(shapes[k], k)] :
                     shapes \in SeqsUpTo(AzShapes, MaxAzUnits)}
    IN  {<<>>}
        \cup {<<AzChapter(1, units)>> : units \in lists}
        \cup {<<AzChapter(1, SubSeq(units, 1, 1)),
                AzChapter(2, SubSeq(units, 2, Len(units)))>> :
                 units \in {l \in lists : Len(l) >= 2}}

InitResume ==
    /\ BpIdle
    /\ GwIdle
    /\ FsIdle
    /\ HyIdle
    /\ ParseIdle
    /\ MergeIdle
    /\ FnIdle
    /\ TtIdle
    /\ PdfIdle
    /\ TxtIdle
    /\ az_input \in AzInputs
    /\ az_output = <<>>
    /\ az_same \in BOOLEAN
    /\ az_progress = <<>>
    /\ az_data = <<>>
    /\ az_todo = <<>>
    /\ az_completed = <<>>
    /\ az_i = 0
    /\ az_pc = "start"
    /\ az_run = 1
    /\ az_ends = <<>>
    /\ az_log = {}

\* the script is started again
AzRunAgain ==
    /\ az_pc = "ended"
    /\ az_run < MaxRuns
    /\ az_run' = az_run + 1
    /\ az_pc' = "start"
    /\ az_data' = <<>>
    /\ az_todo' = <<>>
    /\ az_completed' = <<>>
    /\ az_i' = 0
    /\ UNCHANGED <<az_input, az_output, az_same, az_progress, az_ends, az_log>>
    /\ UNCHANGED notAz

NextResume ==
    \/ AzNothingToDo
    \/ AzInitFails
    \/ AzEnterLoop
    \/ AzTranslateBatch
    \/ AzSaveBatch
    \/ AzInterrupt
    \/ AzInterruptInBatch
    \/ AzFinish
    \/ AzRunAgain

SpecResume == InitResume /\ [][NextResume]_vars

\* C14: after a run that is interrupted between batches, having completed
\* at least one, and a second run that finishes, the output file holds the
\* azure_translation of every unit of a batch completed in either run.
C14_ResumeKeepsTranslations ==
    (/\ az_pc = "ended"
     /\ az_ends = <<"interrupted", "finished">>
     /\ \E e \in az_log : e.run = 1) =>
        \A e \in az_log :
            LET unit == AzOutputFile[e.chapter_idx].content_units[e.unit_idx]
            IN  /\ "azure_translation" \in DOMAIN unit
                /\ unit.azure_translation = e.translation

----------------------------------------------------------------------------
(* Specification SpecFontSizes: analyze_font_sizes on the words of a page   *)

MaxSizedWords == 4

\* sizes 8.0 to 12.0, some less than, some exactly and some more than the
\* tolerance apart; 0 for a word without a size
PageSizes == {0, 80, 100, 104, 105, 108, 110, 120}

InitFontSizes ==
    /\ BpIdle
    /\ GwIdle
    /\ HyIdle
    /\ ParseIdle
    /\ MergeIdle
    /\ FnIdle
    /\ TtIdle
    /\ PdfIdle
    /\ TxtIdle
    /\ AzIdle
    /\ fs_words \in SeqsUpTo(PageSizes, MaxSizedWords)
    /\ font_sizes = <<>>
    /\ fs_k = 0
    /\ size_groups = <<>>
    /\ font_info = <<>>
    /\ fs_pc = "start"
    /\ fs_bucket = <<>>

NextFontSizes ==
    \/ FsNoSizes
    \/ FsSort
    \/ FsJoinGroup
    \/ FsNewGroup
    \/ FsReturn

SpecFontSizes == InitFontSizes /\ [][NextFontSizes]_vars

FsDone == fs_pc = "done"

\* C15: two sizes next to each other in the sorted list that differ by at
\* most the tolerance 0.5 are in the same bucket.
C15_NearSizesShareBucket ==
    FsDone =>
        \A k \in 1..(Len(fs_bucket) - 1) :
            font_sizes[k + 1] - font_sizes[k] <= 5 =>
                fs_bucket[k + 1] = fs_bucket[k]

\* C16: with the buckets ordered by mean, three or more give footnote the
\* smallest, header the largest and body the one at index floor(n/2); two
\* give footnote the smaller and body and header the larger; one gives all
\* three; so footnote <= body <= header; and a page without a sized word
\* gives the empty profile.
C16_TiersByBucketCount ==
    FsDone =>
        IF \A k \in DOMAIN fs_words : fs_words[k] = 0
        THEN font_info = <<>>
        ELSE /\ font_info # <<>>
             /\ LET info == font_info[1]
                    by   == info.all_sizes
                    n    == Len(by)
                IN  /\ n = Len(size_groups) /\ n >= 1
                    /\ \A g \in DOMAIN size_groups :
                          \E b \in DOMAIN by :
                              /\ by[b].key = size_groups[g].key
                              /\ by[b].mean = MeanOf(size_groups[g].sizes)
                    /\ \A b \in 1..(n - 1) :
                          MeanLessEq(by[b].mean, by[b + 1].mean)
                    /\ info.footnote_size = by[1].mean
                    /\ n >= 3 => /\ info.header_size = by[n].mean
                                 /\ info.body_size = by[(n \div 2) + 1].mean
                    /\ n = 2 => /\ info.header_size = by[2].mean
                                /\ info.body_size = by[2].mean
                    /\ n = 1 => /\ info.header_size = by[1].mean
                                /\ info.body_size = by[1].mean
                    /\ MeanLessEq(info.footnote_size, info.body_size)
                    /\ MeanLessEq(info.body_size, info.header_size)

\* sizes 8.0, 10.0, 10.4 and 12.0: three buckets, body is the middle one
C16_Witness ==
    /\ FsDone
    /\ font_sizes = <<80, 100, 104, 120>>
    /\ Len(font_info[1].all_sizes) = 3
    /\ font_info[1].footnote_size = [sum |-> 80, count |-> 1]
    /\ font_info[1].body_size = [sum |-> 204, count |-> 2]
    /\ font_info[1].header_size = [sum |-> 120, count |-> 1]

----------------------------------------------------------------------------
(* Specification SpecLines: group_words_to_lines on the words of a page     *)

MaxLineWords == 4

\* words 1.5, 2, 3 and 5 units below the first, each in two spellings
LineWords ==
    {Word(<<t>>, 720, y, 105) :
        t \in {"a", "b"}, y \in {1000, 1015, 1020, 1030, 1050}}

InitLines ==
    /\ BpIdle
    /\ HyIdle
    /\ ParseIdle
    /\ MergeIdle
    /\ FnIdle
    /\ TtIdle
    /\ PdfIdle
    /\ TxtIdle
    /\ AzIdle
    /\ FsIdle
    /\ gw_words \in SeqsUpTo(LineWords, MaxLineWords)
    /\ gw_lines = <<>>
    /\ gw_pc = "start"

NextLines == GroupWords

SpecLines == InitLines /\ [][NextLines]_vars

GwDone == gw_pc = "done"

\* the lines one after the other
RECURSIVE GwFlat(_)
GwFlat(ls) == IF ls = <<>> THEN <<>> ELSE ls[1] \o GwFlat(Tail(ls))

\* the line that holds the k-th word of the concatenation
GwLineOf(k) ==
    SetMin({l \in DOMAIN gw_lines : k <= Len(GwFlat(SubSeq(gw_lines, 1, l)))})

\* position k of the argument comes at position r of the stable sort by top
GwRankOf(k) ==
    Cardinality({j \in DOMAIN gw_words :
                    \/ gw_words[j].top < gw_words[k].top
                    \/ gw_words[j].top = gw_words[k].top /\ j < k}) + 1

\* C17: the lines are non-empty consecutive runs of the words stably sorted
\* by top: their concatenation is the sorted list, so every word is in
\* exactly one line; a word is in the line of the word before it exactly
\* when their tops are less than 2 units apart; no words give no lines.
C17_LinesPartitionSortedWords ==
    GwDone =>
        LET flat == GwFlat(gw_lines)
        IN  /\ \A l \in DOMAIN gw_lines : gw_lines[l] # <<>>
            /\ Len(flat) = Len(gw_words)
            /\ \A k \in DOMAIN gw_words : flat[GwRankOf(k)] = gw_words[k]
            /\ \A k \in 1..(Len(flat) - 1) :
                  (GwLineOf(k + 1) = GwLineOf(k)) <=>
                      (Abs(flat[k + 1].top - flat[k].top) < 20)
            /\ gw_words = <<>> => gw_lines = <<>>

\* four words out of order: two lines, the first of three words
C17_Witness ==
    /\ GwDone
    /\ Len(gw_words) = 4
    /\ gw_words[1].top = 1050
    /\ gw_words[2].top = 1015
    /\ gw_words[3].top = 1000 /\ gw_words[3].text = <<"b">>
    /\ gw_words[4].top = 1000 /\ gw_words[4].text = <<"a">>
    /\ Len(gw_lines) = 2
    /\ gw_lines[1] = <<gw_words[3], gw_words[4], gw_words[2]>>

\* C18: any two words of a line, adjacent or not, have tops less than the
\* tolerance apart.
C18_LineWithinTolerance ==
    GwDone =>
        \A l \in DOMAIN gw_lines :
            \A i, j \in DOMAIN gw_lines[l] :
                Abs(gw_lines[l][i].top - gw_lines[l][j].top) < 20

----------------------------------------------------------------------------
(* Specification SpecBody: extract_body_paragraphs_with_footnote_refs on    *)
(* the words of one page                                                    *)

MaxBodyLines == 4

\* a first word at the threshold of line 188 and one past it
BodyIndents == {900, 1000}

\* the word texts of a line: three words after a capital, three words in
\* lower case, and three words of which the first, with a capital, ends with
\* a hyphen (two words once repaired)
BodyLineTexts ==
    { << <<"A">>, <<"b">>, <<"b">> >>,
      << <<"b">>, <<"b">>, <<"b">> >>,
      << <<"A", "-">>, <<"b">>, <<"b">> >> }

BodyShapes == [indent : BodyIndents, texts : BodyLineTexts]

\* the words of the j-th line of a page, at body size
BodyLineWords(shape, j) ==
    [k \in DOMAIN shape.texts |->
        Word(shape.texts[k], shape.indent + 100 * (k - 1),
             1000 + 120 * (j - 1), 105)]

\* the words of the lines from the j-th on
RECURSIVE BodyPageFrom(_, _)
BodyPageFrom(shapes, j) ==
    IF j > Len(shapes) THEN <<>>
    ELSE BodyLineWords(shapes[j], j) \o BodyPageFrom(shapes, j + 1)

\* words of the page that are no body words: none, or a word at footnote
\* size and a word at body size below the band
BodyOthers ==
    { <<>>,
      << Word(<<"q">>, 720, 1000, 80), Word(<<"T">>, 720, 4100, 105) >> }

BodyPages ==
    { other \o BodyPageFrom(shapes, 1) :
        other \in BodyOthers, shapes \in SeqsUpTo(BodyShapes, MaxBodyLines) }

InitBody ==
    /\ HyIdle
    /\ ParseIdle
    /\ MergeIdle
    /\ FnIdle
    /\ TtIdle
    /\ PdfIdle
    /\ TxtIdle
    /\ AzIdle
    /\ FsIdle
    /\ GwIdle
    /\ bp_words \in BodyPages
    /\ body_lines = <<>>
    /\ bp_k = 0
    /\ body_paragraphs = <<>>
    /\ bp_current_para = <<>>
    /\ bp_first_para = TRUE
    /\ bp_result = <<>>
    /\ bp_pc = "start"
    /\ bp_fired = <<>>

NextBody ==
    \/ BpGroupLines
    \/ BpFlush
    \/ BpAppend
    \/ BpReturn

SpecBody == InitBody /\ [][NextBody]_vars

BpDone == bp_pc = "done"

\* the cleaned text of the k-th body line
BpLineText(k) == clean_hyphenated_text(LineText(body_lines[k]))

BpIndented(k) == body_lines[k][1].x0 > 900

\* an indented line lies before the k-th line
BpSeenIndent(k) == \E j \in 1..(k - 1) : BpIndented(j)

\* the first case: no indented line so far, and this one is indented
BpFirstIndent(k) == ~BpSeenIndent(k) /\ BpIndented(k)

\* the second case: after an indented line, a line at the margin that begins
\* with a capital and has more than two words
BpMarginStart(k) ==
    /\ BpSeenIndent(k)
    /\ ~BpIndented(k)
    /\ BpLineText(k)[1] \in {"A", "B", "F", "T"}
    /\ WordCount(BpLineText(k)) > 2

\* the paragraphs so far: the closed ones, then the open buffer
BpParagraphs ==
    IF bp_pc = "done" THEN bp_result
    ELSE IF bp_current_para = <<>> THEN body_paragraphs
    ELSE Append(body_paragraphs, FlushPara(bp_current_para))

\* the k-th line is the first line of a paragraph
BpOpens(k) ==
    \E p \in DOMAIN BpParagraphs :
        BpParagraphs[p].start_y = body_lines[k][1].top

\* the last line at or before the k-th that is the first of a paragraph
BpLastOpen(k) ==
    CHOOSE j \in 1..k :
        /\ BpOpens(j)
        /\ \A i \in (j + 1)..k : ~BpOpens(i)

\* C19: a paragraph boundary fires before a line exactly when no indented
\* line came before it and it is indented, or an indented line came before
\* it and it is at the margin, begins with a capital and has more than two
\* words; a line opens a paragraph exactly when it is the first line or the
\* boundary fired, and every other line goes to the end of the open
\* paragraph.
C19_BoundaryInTwoCases ==
    /\ \A k \in DOMAIN bp_fired :
          /\ bp_fired[k] <=> (BpFirstIndent(k) \/ BpMarginStart(k))
          /\ BpOpens(k) <=> (k = 1 \/ bp_fired[k])
    /\ (bp_pc = "loop" /\ bp_fired # <<>>) =>
          LET n == Len(bp_fired)
          IN  /\ Len(bp_current_para) = n - BpLastOpen(n) + 1
              /\ bp_current_para[Len(bp_current_para)].text = BpLineText(n)

\* a page whose second line is the first indented one, whose third line is
\* indented too and whose fourth line is a margin start, all read
C19_Witness ==
    /\ BpDone
    /\ Len(bp_fired) = 4
    /\ BpFirstIndent(2) /\ bp_fired[2]
    /\ BpIndented(3) /\ ~bp_fired[3]
    /\ BpMarginStart(4) /\ bp_fired[4]
    /\ Len(bp_result) = 3

\* the texts of a list of paragraphs joined with single spaces
BpJoined(paras) == Join([k \in DOMAIN paras |-> paras[k].text], <<" ">>)

\* the cleaned texts of the first n lines joined with single spaces
BpLinesJoined(n) == Join([k \in 1..n |-> BpLineText(k)], <<" ">>)

\* C20: at every pass the closed paragraphs and the open buffer, joined with
\* single spaces, are the cleaned texts of the lines read so far joined with
\* single spaces; the returned list is that of all lines, it is what the
\* function returns for the page, and none of its paragraphs is empty.
C20_NothingLostOrDuplicated ==
    /\ bp_pc \in {"loop", "done"} =>
          /\ BpJoined(BpParagraphs) = BpLinesJoined(Len(bp_fired))
          /\ \A p \in DOMAIN BpParagraphs : BpParagraphs[p].text # <<>>
    /\ BpDone =>
          /\ Len(bp_fired) = Len(body_lines)
          /\ [k \in DOMAIN bp_result |-> bp_result[k].text]
                = extract_body_paragraphs_with_footnote_refs(bp_words)
          /\ (body_lines # <<>>) => (bp_result # <<>>)

\* a returned list of two paragraphs or more, one of them of several lines,
\* from a page with a line that the hyphen repair changed
C20_Witness ==
    /\ BpDone
    /\ Len(bp_result) >= 2
    /\ Len(body_lines) > Len(bp_result)
    /\ \E k \in DOMAIN body_lines : BpLineText(k) # LineText(body_lines[k])

----------------------------------------------------------------------------
(* extract_footnotes_improved: the footnotes opened by numbered lines       *)
(* (checked under SpecFootnotes)                                            *)

\* the numbered lines among the first n lines, in line order
FnOpenersUpTo(n) == SelectSeq(FnOpeners, LAMBDA o : o <= n)

\* the footnotes so far: the closed ones, then the open one
FnCollected == IF FnDone THEN footnotes ELSE footnotes \o current_footnote

\* C21: a line is taken as opening a footnote exactly when it starts with an
\* integer; the footnotes collected so far, the open one last, are one per
\* such line in line order, each with the leading digit run as original_id
\* and the stripped remainder of the line, when there is one, as first
\* content line; all but the latest are closed and in the list before the
\* latest is opened.
C21_OnePerNumberedLine ==
    LET read    == Len(fn_branch)
        openers == FnOpenersUpTo(read)
    IN  /\ \A k \in DOMAIN fn_branch :
              (fn_branch[k] = "open") <=> FnNumbered(k)
        /\ Len(FnCollected) = Len(openers)
        /\ \A f \in DOMAIN FnCollected :
              /\ FnCollected[f].original_id = LeadingDigits(FnText(openers[f]))
              /\ FnCollected[f].start_y = FnY(openers[f])
              /\ FnRemainder(openers[f]) # <<>> =>
                    /\ FnCollected[f].content # <<>>
                    /\ FnCollected[f].content[1] = FnRemainder(openers[f])
        /\ (fn_pc = "loop" /\ openers # <<>>) =>
              /\ Len(footnotes) = Len(openers) - 1
              /\ Len(current_footnote) = 1
        /\ (fn_pc = "loop" /\ openers = <<>>) =>
              (footnotes = <<>> /\ current_footnote = <<>>)

\* the lines "9 q" and "233": the second closes the footnote of the first
C21_Witness ==
    /\ FnDone
    /\ fn_branch = <<"open", "open">>
    /\ Len(footnotes) = 2
    /\ footnotes[1].original_id = <<"9">>
    /\ footnotes[1].content = << <<"q">> >>
    /\ footnotes[2].original_id = <<"2", "3", "3">>
    /\ footnotes[2].content = <<>>

----------------------------------------------------------------------------
(* Specification SpecBodyHyphen:                                            *)
(* extract_body_paragraphs_with_footnote_refs on pages whose lines hold     *)
(* words broken by a hyphen, inside a line and at its end                   *)

MaxHyphenLines == 3

\* a first word at the left margin and an indented one
HyphenIndents == {720, 1000}

\* the word texts of a line: a line that ends with the first part of a
\* broken word, a line of one word, and a line that holds both parts
HyphenLineTexts ==
    { << <<"b">>, <<"a", "-">> >>,
      << <<"b">> >>,
      << <<"a", "-">>, <<"b">> >> }

HyphenShapes == [indent : HyphenIndents, texts : HyphenLineTexts]

HyphenPages ==
    { BodyPageFrom(shapes, 1) :
        shapes \in SeqsUpTo(HyphenShapes, MaxHyphenLines) }

InitBodyHyphen ==
    /\ HyIdle
    /\ ParseIdle
    /\ MergeIdle
    /\ FnIdle
    /\ TtIdle
    /\ PdfIdle
    /\ TxtIdle
    /\ AzIdle
    /\ FsIdle
    /\ GwIdle
    /\ bp_words \in HyphenPages
    /\ body_lines = <<>>
    /\ bp_k = 0
    /\ body_paragraphs = <<>>
    /\ bp_current_para = <<>>
    /\ bp_first_para = TRUE
    /\ bp_result = <<>>
    /\ bp_pc = "start"
    /\ bp_fired = <<>>

SpecBodyHyphen == InitBodyHyphen /\ [][NextBody]_vars

\* at i: a word character, a hyphen, whitespace, a word character
BrokenWordAt(t, i) ==
    /\ i + 3 <= Len(t)
    /\ IsWordChar(t[i])
    /\ t[i + 1] = "-"
    /\ IsSpaceChar(t[i + 2])
    /\ SpaceRunEnd(t, i + 2) <= Len(t)
    /\ IsWordChar(t[SpaceRunEnd(t, i + 2)])

\* C22: no returned paragraph text holds a word character followed by a
\* hyphen, whitespace and a word character; a word broken at the end of a
\* line is rejoined with its second part on the next line.
C22_HyphenationRepaired ==
    BpDone =>
        \A p \in DOMAIN bp_result :
            \A i \in DOMAIN bp_result[p].text :
                ~BrokenWordAt(bp_result[p].text, i)

----------------------------------------------------------------------------
(* parse_chapter_content: the units handed to merge_split_paragraphs        *)
(* (checked under SpecParse)                                                *)

\* the drop cap of line 1 is joined to line 2
TxtDropCapJoined ==
    /\ FirstLineIsDropCap
    /\ Len(lines) >= 2
    /\ Strip(lines[2]) # <<>>

\* the non-empty lines from the k-th on, stripped, in line order, a joined
\* drop cap and its line being one
RECURSIVE TxtTextLinesFrom(_)
TxtTextLinesFrom(k) ==
    IF k > Len(lines) THEN <<>>
    ELSE IF k = 1 /\ TxtDropCapJoined
    THEN <<Strip(lines[1]) \o Strip(lines[2])>> \o TxtTextLinesFrom(3)
    ELSE IF Strip(lines[k]) = <<>> THEN TxtTextLinesFrom(k + 1)
    ELSE <<Strip(lines[k])>> \o TxtTextLinesFrom(k + 1)

\* digits, whitespace, then text
TxtIsFootnoteText(t) ==
    LET d == DigitRunEnd(t, 1)
    IN  /\ d > 1
        /\ d <= Len(t)
        /\ t[d] \in {" ", "\n"}
        /\ \E k \in (d + 1)..Len(t) : t[k] \notin {" ", "\n"}

\* the unit of the n-th non-empty line
TxtUnitOf(n, t) ==
    IF TxtIsFootnoteText(t)
    THEN [id |-> n, type |-> "footnote", original_id |-> LeadingDigits(t),
          text |-> Strip(SubSeq(t, DigitRunEnd(t, 1), Len(t))), note |-> <<>>]
    ELSE [id |-> n, type |-> "paragraph", original_id |-> <<>>,
          text |-> t, note |-> <<>>]

\* C23: the list parse_chapter_content hands to merge_split_paragraphs holds
\* one unit per non-empty line of the chapter, a joined drop cap and its line
\* being one, in line order with ids 1, 2, ..., n: a footnote with the
\* leading digits as original_id and the rest as text when the line is
\* digits, whitespace, then text, and a paragraph with the line as text
\* otherwise.
C23_OneUnitPerLine ==
    parse_pc \in {"merging", "done"} =>
        LET texts == TxtTextLinesFrom(1)
        IN  input_units = [n \in DOMAIN texts |-> TxtUnitOf(n, texts[n])]

\* a chapter of three lines that starts with a drop cap and ends with a
\* footnote line: two units
C23_Witness ==
    /\ parse_pc = "merging"
    /\ Len(lines) = 3
    /\ TxtDropCapJoined
    /\ Len(input_units) = 2
    /\ input_units[1].type = "paragraph"
    /\ input_units[2].type = "footnote"
    /\ input_units[2].id = 2

----------------------------------------------------------------------------
(* pdf_to_json_final: titles and headers of a page record                   *)
(* (checked under SpecPdf)                                                  *)

\* the units of a type in the p-th page record
PdfUnitsOfType(p, type) ==
    SelectSeq(result[p].content_units, LAMBDA u : u.type = type)

\* the words of the page the p-th record was made from
PdfWordsOf(p) == pdf_pages[result[p].page_number]

\* the page holds a word of the header's size, 6.0 to below 7.0, above 70
PdfHasHeaderWord(p) ==
    \E k \in DOMAIN PdfWordsOf(p) :
        /\ PdfWordsOf(p)[k].size >= 60 /\ PdfWordsOf(p)[k].size < 70
        /\ PdfWordsOf(p)[k].top < 700

\* C24: no page record holds both a title unit and a header unit; a record
\* holds a header unit only when extract_titles returned no title for its
\* page, it holds at most one, and its text is not empty.
C24_TitleExcludesHeader ==
    \A p \in DOMAIN result :
        /\ ~(PdfUnitsOfType(p, "title") # <<>>
                /\ PdfUnitsOfType(p, "header") # <<>>)
        /\ Len(PdfUnitsOfType(p, "title")) = Len(extract_titles(PdfWordsOf(p)))
        /\ PdfUnitsOfType(p, "header") # <<>> =>
              /\ extract_titles(PdfWordsOf(p)) = <<>>
              /\ Len(PdfUnitsOfType(p, "header")) = 1
              /\ PdfUnitsOfType(p, "header")[1].source_text # <<>>
              /\ PdfHasHeaderWord(p)

\* a document with a page that holds a title and a word of the header's
\* size in the header's band: its record has the title and no header
C24_Witness ==
    \E p \in DOMAIN result :
        /\ PdfHasHeaderWord(p)
        /\ PdfUnitsOfType(p, "title") # <<>>
        /\ PdfUnitsOfType(p, "header") = <<>>

----------------------------------------------------------------------------
(* Specification SpecBodyRef:                                               *)
(* extract_body_paragraphs_with_footnote_refs on pages whose body area      *)
(* holds a superscript footnote reference                                   *)

MaxRefLines == 3

\* a reference of one or two digits, at size 5 or 6, raised above the first
\* or the second line of the page
RefTokens ==
    { Word(t, 950, y, sz) :
        t \in {<<"1">>, <<"1", "2">>}, sz \in {50, 60}, y \in {980, 1100} }

RefPages ==
    { BodyPageFrom(shapes, 1) \o <<ref>> :
        shapes \in SeqsUpTo(BodyShapes, MaxRefLines) \ {<<>>},
        ref \in RefTokens }

InitBodyRef ==
    /\ HyIdle
    /\ ParseIdle
    /\ MergeIdle
    /\ FnIdle
    /\ TtIdle
    /\ PdfIdle
    /\ TxtIdle
    /\ AzIdle
    /\ FsIdle
    /\ GwIdle
    /\ bp_words \in RefPages
    /\ body_lines = <<>>
    /\ bp_k = 0
    /\ body_paragraphs = <<>>
    /\ bp_current_para = <<>>
    /\ bp_first_para = TRUE
    /\ bp_result = <<>>
    /\ bp_pc = "start"
    /\ bp_fired = <<>>

SpecBodyRef == InitBodyRef /\ [][NextBody]_vars

\* a token of the body area at size 6 or less whose text is one or two digits
BpIsReference(w) ==
    /\ w.size <= 60
    /\ w.top > 700 /\ w.top < 4000
    /\ Len(w.text) \in {1, 2}
    /\ \A k \in DOMAIN w.text : w.text[k] \in DigitChars

\* t holds part as a run of consecutive characters
BpContains(t, part) ==
    \E i \in 1..(Len(t) - Len(part) + 1) :
        SubSeq(t, i, i + Len(part) - 1) = part

\* C25: every footnote reference of the body area appears in the text of a
\* returned paragraph as "[n]", and no returned paragraph is the reference
\* alone.
C25_ReferenceInline ==
    BpDone =>
        \A k \in DOMAIN bp_words :
            BpIsReference(bp_words[k]) =>
                /\ \E p \in DOMAIN bp_result :
                      BpContains(bp_result[p].text,
                                 <<"[">> \o bp_words[k].text \o <<"]">>)
                /\ \A p \in DOMAIN bp_result :
                      bp_result[p].text # bp_words[k].text

----------------------------------------------------------------------------
(* merge_split_paragraphs: what is left to merge in the returned list       *)
(* (checked under SpecMerge)                                                *)

\* the r-th returned unit is a paragraph that starts with a lowercase letter
OutIsLowerParagraph(r) ==
    /\ merge_result[r].type = "paragraph"
    /\ merge_result[r].text # <<>>
    /\ merge_result[r].text[1] \in LowerChars

\* a paragraph lies before the r-th returned unit
OutHasEarlierParagraph(r) ==
    \E q \in 1..(r - 1) : merge_result[q].type = "paragraph"

\* a second application would merge the r-th returned unit
OutStillToMerge(r) ==
    /\ r > 1
    /\ merge_result[r - 1].type = "footnote"
    /\ OutIsLowerParagraph(r)
    /\ OutHasEarlierParagraph(r - 1)

\* C26 as stated: in the returned list no paragraph that begins with a
\* lowercase letter immediately follows a footnote while an earlier
\* paragraph exists in the list, so that a second application changes
\* nothing.
C26_FullyMerged ==
    MergeDone => \A r \in DOMAIN merge_result : ~OutStillToMerge(r)

\* C26 (amended): no returned paragraph that begins with a lowercase letter
\* and has an earlier paragraph in the returned list immediately followed a
\* footnote in the argument; the returned paragraphs that a second
\* application would merge are those that followed an absorbed paragraph.
C26_MergedInArgumentOrder ==
    MergeDone =>
        \A r \in DOMAIN merge_result :
            LET k == InPosOf(merge_result[r].id)
            IN  /\ (OutIsLowerParagraph(r) /\ OutHasEarlierParagraph(r)) =>
                      ~InIsFragment(k)
                /\ OutStillToMerge(r) =>
                      /\ k > 1
                      /\ InIsParagraph(k - 1)
                      /\ EmittedCount(input_units[k - 1].id) = 0

\* paragraph, footnote, lowercase paragraph, lowercase paragraph: the first
\* lowercase paragraph is absorbed and the second is returned right after
\* the footnote
C26_Witness ==
    /\ MergeDone
    /\ InLen = 4
    /\ InIsParagraph(1)
    /\ input_units[2].type = "footnote"
    /\ InIsFragment(3)
    /\ InIsParagraph(4)
    /\ input_units[4].text # <<>>
    /\ input_units[4].text[1] \in LowerChars
    /\ Len(merge_result) = 3
    /\ merge_result[1].note = <<NoteFor(input_units[3].id)>>
    /\ merge_result[3] = input_units[4]

----------------------------------------------------------------------------
(* pdf_to_json_final: the roles a token of a page is given                  *)
(* (checked under SpecPdf)                                                  *)

\* line 222: the word is selected by extract_footnotes_improved
IsFootnoteWord(w) == w.top > FootnoteBandTop

\* the functions that select the word
RolesOf(w) ==
    {role \in {"title", "header", "paragraph", "footnote"} :
        \/ role = "title" /\ IsTitleWord(w)
        \/ role = "header" /\ IsHeaderWord(w)
        \/ role = "paragraph" /\ IsBodyWord(w)
        \/ role = "footnote" /\ IsFootnoteWord(w)}

\* the units of the p-th page record whose text holds the text t
PdfUnitsHolding(p, t) ==
    {u \in DOMAIN result[p].content_units :
        BpContains(result[p].content_units[u].source_text, t)}

\* C27: every token of a page is selected by at most one of extract_titles,
\* extract_page_header, extract_body_paragraphs_with_footnote_refs and
\* extract_footnotes_improved, and on a page whose tokens differ in text no
\* token's text is in two content units of the page record.
C27_OneRolePerToken ==
    \A p \in DOMAIN result :
        LET words == PdfWordsOf(p)
        IN  /\ \A k \in DOMAIN words : Cardinality(RolesOf(words[k])) <= 1
            /\ (\A i, j \in DOMAIN words :
                    i # j => words[i].text # words[j].text) =>
                  \A k \in DOMAIN words :
                      Cardinality(PdfUnitsHolding(p, words[k].text)) <= 1

============================================================================
